---- MODULE Spec2Model ----
(***************************************************************************)
(* RemnaWave VPN orchestrator: ClientService (src/src/app/services/        *)
(* client.py) driving the local record store (clients, operations tables)  *)
(* and the RemnaWave panel through RemnawaveService, one request at a      *)
(* time, each request running in the transaction scope of get_session      *)
(* (src/src/app/database/session.py): commit on normal return, rollback    *)
(* when the handler raises.  Spec runs the requests one after another;     *)
(* SpecCreateRace runs create_client requests of several workers step by   *)
(* step, each in its own database session (variable sessions), and         *)
(* SpecRace, SpecStatusRace and SpecExtendRace do the same for the         *)
(* requests on one stored client.                                          *)
(*                                                                         *)
(* Time is an integer clock; one unit stands for one day, so that          *)
(* timedelta(days=d) is the integer d.  The panel is an external system:   *)
(* a gateway call either succeeds with the effect its adapter method       *)
(* documents, or raises with one of GatewayErrors and leaves the panel     *)
(* as it was.                                                              *)
(***************************************************************************)
EXTENDS Integers, Sequences, FiniteSets, TLC

VARIABLES clients, operations, remote, now, next_id, last, sessions

vars == <<clients, operations, remote, now, next_id, last, sessions>>

----------------------------------------------------------------------------
(* Bounds of the model *)

MaxTime == 2           \* last value of the clock
MaxOps == 3            \* committed audit rows beyond which no request is tried

(* Program constants *)

MinDays == 1           \* ClientCreateRequest.days / ClientExtendRequest.days: ge=1

Usernames == {"alice", "bob"}
GatewayErrors == {"timeout", "rejected"}
GatewayOutcomes == {"ok"} \cup GatewayErrors
\* Mutant of Days: the schema's lower limit is ge=0
Days_ge0 == {MinDays - 1, MinDays}

\* ClientCreateRequest.days / ClientExtendRequest.days: the smallest value
\* the schema accepts and the next one
Days == {MinDays, MinDays + 1}
MaxClients == Cardinality(Usernames) \* client ids handed out: one per username tried
MaxExpiry == MaxTime + 3            \* extend is not tried beyond this expiry

----------------------------------------------------------------------------
(* Enumerations and exceptions *)

ACTIVE == "active"
BLOCKED == "blocked"
ClientStatus == {ACTIVE, BLOCKED}

SUCCESS == "success"
FAIL == "fail"
OperationResult == {SUCCESS, FAIL}

ActionType == {"create", "delete", "extend", "block", "unblock",
               "get_config", "rotate_config", "auto_deactivate"}

NoException == "none"
ClientNotFoundError == "ClientNotFoundError"
ClientAlreadyExistsError == "ClientAlreadyExistsError"
ClientAlreadyBlockedError == "ClientAlreadyBlockedError"
ClientNotBlockedError == "ClientNotBlockedError"
ClientConfigUnavailableError == "ClientConfigUnavailableError"
RemnawaveIntegrationError == "RemnawaveIntegrationError"

\* Python None for Operation.payload and Operation.error
NonePayload == [none |-> TRUE]
NoneError == "None"

\* Python None for Client.remnawave_uuid / Client.short_uuid (falsy)
NoneUuid == 0

Max(a, b) == IF a >= b THEN a ELSE b

----------------------------------------------------------------------------
(* The RemnaWave panel, seen through RemnawaveService.  remote.users maps   *)
(* the uuid of every panel user to its state; next_uuid and next_short are  *)
(* the panel's sources of fresh uuid and short_uuid values.                 *)

RemoteInit == [users |-> <<>>, next_uuid |-> 1, next_short |-> 1]

\* RemnawaveService.create_user: a new ACTIVE user with the given expiry
remnawave_create_user(rem, username, expire_at) ==
    [rem EXCEPT !.users = [u \in DOMAIN rem.users \cup {rem.next_uuid} |->
                              IF u = rem.next_uuid
                              THEN [username |-> username, status |-> "ACTIVE",
                                    expire_at |-> expire_at,
                                    short_uuid |-> rem.next_short]
                              ELSE rem.users[u]],
                !.next_uuid = @ + 1,
                !.next_short = @ + 1]

\* RemnawaveService.delete_user
remnawave_delete_user(rem, uuid) ==
    [rem EXCEPT !.users = [u \in DOMAIN rem.users \ {uuid} |-> rem.users[u]]]

\* RemnawaveService.disable_user
remnawave_disable_user(rem, uuid) ==
    IF uuid \in DOMAIN rem.users
    THEN [rem EXCEPT !.users[uuid].status = "DISABLED"]
    ELSE rem

\* RemnawaveService.enable_user
remnawave_enable_user(rem, uuid) ==
    IF uuid \in DOMAIN rem.users
    THEN [rem EXCEPT !.users[uuid].status = "ACTIVE"]
    ELSE rem

\* RemnawaveService.update_expire_at
remnawave_update_expire_at(rem, uuid, expire_at) ==
    IF uuid \in DOMAIN rem.users
    THEN [rem EXCEPT !.users[uuid].expire_at = expire_at]
    ELSE rem

\* RemnawaveService.revoke_subscription: the user gets a fresh short_uuid
remnawave_revoke_subscription(rem, uuid) ==
    IF uuid \in DOMAIN rem.users
    THEN [rem EXCEPT !.users[uuid].short_uuid = rem.next_short,
                     !.next_short = @ + 1]
    ELSE [rem EXCEPT !.next_short = @ + 1]

\* The panel after a successful call of `method`
remnawave_effect(rem, method, username, target, arg) ==
    CASE method = "create_user" -> remnawave_create_user(rem, username, arg)
      [] method = "delete_user" -> remnawave_delete_user(rem, target)
      [] method = "disable_user" -> remnawave_disable_user(rem, target)
      [] method = "enable_user" -> remnawave_enable_user(rem, target)
      [] method = "update_expire_at" -> remnawave_update_expire_at(rem, target, arg)
      [] method = "revoke_subscription" -> remnawave_revoke_subscription(rem, target)
      [] OTHER -> rem          \* get_subscription_config only reads

----------------------------------------------------------------------------
(* One invocation of a ClientService method.  The context E carries the     *)
(* session's view of the two tables (flushed, not yet committed), the panel,*)
(* and what the invocation has done so far: its gateway calls, its          *)
(* repository writes, the audit rows it added, and the exception it raised. *)

Ctx0 ==
    [clients |-> clients, operations |-> operations, remote |-> remote,
     next_id |-> next_id,
     calls |-> <<>>, writes |-> <<>>, appended |-> <<>>, order |-> <<>>,
     raised |-> NoException, count |-> 0]

Raise(E, exc) == [E EXCEPT !.raised = exc]

\* Mutant of Gateway: a failed call is made a second time
Gateway_retry(E, method, username, target, arg, outcome) ==
    LET call == [method |-> method, username |-> username,
                 target |-> target, arg |-> arg, outcome |-> outcome]
    IN [E EXCEPT !.calls = IF outcome = "ok" THEN Append(@, call)
                           ELSE Append(Append(@, call), call),
                 !.order = Append(@, "gateway"),
                 !.remote = IF outcome = "ok"
                            THEN remnawave_effect(@, method, username, target, arg)
                            ELSE @]

\* await self._remnawave.<method>(...): the call is made; on "ok" the panel changes
Gateway(E, method, username, target, arg, outcome) ==
    [E EXCEPT !.calls = Append(@, [method |-> method, username |-> username,
                                   target |-> target, arg |-> arg,
                                   outcome |-> outcome]),
              !.order = Append(@, "gateway"),
              !.remote = IF outcome = "ok"
                         THEN remnawave_effect(@, method, username, target, arg)
                         ELSE @]

\* Mutant of OperationRepository_create: the result argument is dropped and
\* every row is stored as success
OperationRepository_create_success(E, client_id, action, payload, result, error) ==
    LET operation == [client_id |-> client_id, action |-> action,
                      payload |-> payload, result |-> SUCCESS, error |-> error]
    IN [E EXCEPT !.operations = Append(@, operation),
                 !.appended = Append(@, operation),
                 !.order = Append(@, "audit")]

\* Mutant of OperationRepository_create: the error argument is not stored
OperationRepository_create_no_error(E, client_id, action, payload, result, error) ==
    LET operation == [client_id |-> client_id, action |-> action,
                      payload |-> payload, result |-> result, error |-> NoneError]
    IN [E EXCEPT !.operations = Append(@, operation),
                 !.appended = Append(@, operation),
                 !.order = Append(@, "audit")]

\* OperationRepository.create: session.add(operation); flush
OperationRepository_create(E, client_id, action, payload, result, error) ==
    LET operation == [client_id |-> client_id, action |-> action,
                      payload |-> payload, result |-> result, error |-> error]
    IN [E EXCEPT !.operations = Append(@, operation),
                 !.appended = Append(@, operation),
                 !.order = Append(@, "audit")]

\* ClientRepository.create: session.add(client); flush; the id is uuid4's
ClientRepository_create(E, client) ==
    [E EXCEPT !.clients = [i \in DOMAIN E.clients \cup {E.next_id} |->
                              IF i = E.next_id THEN client ELSE E.clients[i]],
              !.next_id = @ + 1,
              !.writes = Append(@, "create"),
              !.order = Append(@, "write")]

\* Mutant of ClientRepository_update: the attributes are written to every row
ClientRepository_update_all(E, id, client) ==
    [E EXCEPT !.clients = [i \in DOMAIN E.clients |->
                              [E.clients[i] EXCEPT
                                  !.status = client.status,
                                  !.expires_at = client.expires_at,
                                  !.short_uuid = client.short_uuid,
                                  !.subscription_url = client.subscription_url]],
              !.writes = Append(@, "update"),
              !.order = Append(@, "write")]

\* ClientRepository.update: flush of the attributes set on the loaded client
ClientRepository_update(E, id, client) ==
    [E EXCEPT !.clients[id] = client,
              !.writes = Append(@, "update"),
              !.order = Append(@, "write")]

\* Mutant of CascadeDelete: the delete is not restricted to the client's rows
CascadeDelete_all(ops, id) == <<>>

\* Mutant of CascadeDelete: the relationship has no cascade, the rows stay
CascadeDelete_none(ops, id) == ops

\* Client.operations cascade="all, delete-orphan" and
\* Operation.client_id ForeignKey(ondelete="CASCADE")
CascadeDelete(ops, id) == SelectSeq(ops, LAMBDA o : o.client_id # id)

\* ClientRepository.delete: session.delete(client); flush
ClientRepository_delete(E, id) ==
    [E EXCEPT !.clients = [i \in DOMAIN E.clients \ {id} |-> E.clients[i]],
              !.operations = CascadeDelete(@, id),
              !.writes = Append(@, "delete"),
              !.order = Append(@, "write")]

\* Mutant of get_by_username: the query finds nothing
get_by_username_none(E, username) == {}

\* ClientRepository.get_by_username: the ids holding that username
get_by_username(E, username) ==
    {i \in DOMAIN E.clients : E.clients[i].username = username}

\* all orders in which a query without ORDER BY may return the rows S
Orders(S) ==
    {q \in [1..Cardinality(S) -> S] : \A i, j \in DOMAIN q : i # j => q[i] # q[j]}

\* Python None for the status and expired arguments of get_list
NoFilter == "None"
StatusFilters == ClientStatus \cup {NoFilter}
ExpiredFilters == {"true", "false", NoFilter}

\* Mutant of get_list_where: the expired filters compare with <= and >
get_list_where_le(E, status, expired, t) ==
    {i \in DOMAIN E.clients :
        /\ status # NoFilter => E.clients[i].status = status
        /\ expired = "true" => E.clients[i].expires_at <= t
        /\ expired = "false" => E.clients[i].expires_at > t}

\* ClientRepository.get_list: the where clauses; t is the database's now()
get_list_where(E, status, expired, t) ==
    {i \in DOMAIN E.clients :
        /\ status # NoFilter => E.clients[i].status = status
        /\ expired = "true" => E.clients[i].expires_at < t
        /\ expired = "false" => E.clients[i].expires_at >= t}

\* ClientRepository.get_list: order_by(Client.created_at.desc()) -- every
\* sequence of the selected rows the database may return; rows with equal
\* created_at come in any order
get_list_items(E, status, expired, t) ==
    {q \in Orders(get_list_where(E, status, expired, t)) :
        \A a, b \in DOMAIN q :
            a < b => E.clients[q[a]].created_at >= E.clients[q[b]].created_at}

\* ClientRepository.get_list: count_stmt, select count(Client.id) with the
\* same where clauses
get_list_total(E, status, expired, t) ==
    Cardinality(get_list_where(E, status, expired, t))

\* Mutant of get_expired_active: expires_at <= now()
get_expired_active_le(E, t) ==
    {i \in DOMAIN E.clients :
        E.clients[i].status = ACTIVE /\ E.clients[i].expires_at <= t}

\* Mutant of get_expired_active: the status condition is missing
get_expired_active_any_status(E, t) ==
    {i \in DOMAIN E.clients : E.clients[i].expires_at < t}

\* ClientRepository.get_expired_active
get_expired_active(E, t) ==
    {i \in DOMAIN E.clients :
        E.clients[i].status = ACTIVE /\ E.clients[i].expires_at < t}

----------------------------------------------------------------------------
(* ClientService *)

\* Mutant of except_gateway_error: the FAIL row is written, the raise is missing
except_gateway_error_swallowed(E, id, action, payload, exc) ==
    OperationRepository_create(E, id, action, payload, FAIL, exc)

\* except Exception as exc: write the FAIL audit row, raise RemnawaveIntegrationError
except_gateway_error(E, id, action, payload, exc) ==
    Raise(OperationRepository_create(E, id, action, payload, FAIL, exc),
          RemnawaveIntegrationError)

\* Mutant of create_client: the except branch of create_user does not raise
\* and the client is stored without the panel's data
create_client_partial(username, days, t, gw) ==
    LET E0 == Ctx0
        existing == get_by_username(E0, username)
        expire_at == t + days
        E1 == Gateway(E0, "create_user", username, NoneUuid, expire_at, gw)
        rw_uuid == IF gw = "ok" THEN E0.remote.next_uuid ELSE NoneUuid
        rw_short == IF gw = "ok" THEN E0.remote.next_short ELSE NoneUuid
        client == [username |-> username,
                   remnawave_uuid |-> rw_uuid,
                   short_uuid |-> rw_short,
                   subscription_url |-> rw_short,
                   status |-> ACTIVE,
                   expires_at |-> expire_at,
                   created_at |-> now]
        E2 == ClientRepository_create(E1, client)
        E3 == OperationRepository_create(E2, E1.next_id, "create",
                  [username |-> username, days |-> days], SUCCESS, NoneError)
    IN IF existing # {} THEN Raise(E0, ClientAlreadyExistsError)
       ELSE E3

\* Mutant of create_client: the stored expires_at is the clock value, without
\* the days
create_client_expires_now(username, days, t, gw) ==
    LET E0 == Ctx0
        existing == get_by_username(E0, username)
        expire_at == t + days
        E1 == Gateway(E0, "create_user", username, NoneUuid, expire_at, gw)
        rw_uuid == E0.remote.next_uuid
        rw_user == E1.remote.users[rw_uuid]
        client == [username |-> username,
                   remnawave_uuid |-> rw_uuid,
                   short_uuid |-> rw_user.short_uuid,
                   subscription_url |-> rw_user.short_uuid,
                   status |-> ACTIVE,
                   expires_at |-> t,
                   created_at |-> now]
        E2 == ClientRepository_create(E1, client)
        E3 == OperationRepository_create(E2, E1.next_id, "create",
                  [username |-> username, days |-> days], SUCCESS, NoneError)
    IN IF existing # {} THEN Raise(E0, ClientAlreadyExistsError)
       ELSE IF gw # "ok" THEN Raise(E1, RemnawaveIntegrationError)
       ELSE E3

\* Mutant of create_client: the Client is built without remnawave_uuid
create_client_unbound(username, days, t, gw) ==
    LET E0 == Ctx0
        existing == get_by_username(E0, username)
        expire_at == t + days
        E1 == Gateway(E0, "create_user", username, NoneUuid, expire_at, gw)
        rw_uuid == E0.remote.next_uuid
        rw_user == E1.remote.users[rw_uuid]
        client == [username |-> username,
                   remnawave_uuid |-> NoneUuid,
                   short_uuid |-> rw_user.short_uuid,
                   subscription_url |-> rw_user.short_uuid,
                   status |-> ACTIVE,
                   expires_at |-> expire_at,
                   created_at |-> now]
        E2 == ClientRepository_create(E1, client)
        E3 == OperationRepository_create(E2, E1.next_id, "create",
                  [username |-> username, days |-> days], SUCCESS, NoneError)
    IN IF existing # {} THEN Raise(E0, ClientAlreadyExistsError)
       ELSE IF gw # "ok" THEN Raise(E1, RemnawaveIntegrationError)
       ELSE E3

\* ClientService.create_client; t is the value datetime.now() returns.
\* created_at is the server default now() of the INSERT: the time at which
\* the session's transaction began, with the first query
create_client(username, days, t, gw) ==
    LET E0 == Ctx0
        existing == get_by_username(E0, username)
        expire_at == t + days
        E1 == Gateway(E0, "create_user", username, NoneUuid, expire_at, gw)
        rw_uuid == E0.remote.next_uuid
        rw_user == E1.remote.users[rw_uuid]
        client == [username |-> username,
                   remnawave_uuid |-> rw_uuid,
                   short_uuid |-> rw_user.short_uuid,
                   subscription_url |-> rw_user.short_uuid,
                   status |-> ACTIVE,
                   expires_at |-> expire_at,
                   created_at |-> now]
        E2 == ClientRepository_create(E1, client)
        E3 == OperationRepository_create(E2, E1.next_id, "create",
                  [username |-> username, days |-> days], SUCCESS, NoneError)
    IN IF existing # {} THEN Raise(E0, ClientAlreadyExistsError)
       ELSE IF gw # "ok" THEN Raise(E1, RemnawaveIntegrationError)
       ELSE E3

\* ClientService.get_client
get_client(E, id) ==
    IF id \in DOMAIN E.clients THEN E ELSE Raise(E, ClientNotFoundError)

\* Mutant of delete_client: the success row is written after the local row
\* has been deleted
delete_client_audit_last(id, gw) ==
    LET E0 == get_client(Ctx0, id)
        client == E0.clients[id]
        bound == client.remnawave_uuid # NoneUuid
        E1 == IF bound
              THEN Gateway(E0, "delete_user", "", client.remnawave_uuid, 0, gw)
              ELSE E0
        Efail == except_gateway_error(E1, id, "delete", NonePayload, gw)
        E2 == ClientRepository_delete(E1, id)
        E3 == OperationRepository_create(E2, id, "delete",
                  NonePayload, SUCCESS, NoneError)
    IN IF E0.raised # NoException THEN E0
       ELSE IF bound /\ gw # "ok" THEN Efail
       ELSE E3

\* Mutant of delete_client: the local row is deleted before the gateway call
delete_client_local_first(id, gw) ==
    LET E0 == get_client(Ctx0, id)
        client == E0.clients[id]
        bound == client.remnawave_uuid # NoneUuid
        Edel == ClientRepository_delete(E0, id)
        E1 == IF bound
              THEN Gateway(Edel, "delete_user", "", client.remnawave_uuid, 0, gw)
              ELSE Edel
        Efail == except_gateway_error(E1, id, "delete", NonePayload, gw)
        E2 == OperationRepository_create(E1, id, "delete",
                  NonePayload, SUCCESS, NoneError)
    IN IF E0.raised # NoException THEN E0
       ELSE IF bound /\ gw # "ok" THEN Efail
       ELSE E2

\* ClientService.delete_client
delete_client(id, gw) ==
    LET E0 == get_client(Ctx0, id)
        client == E0.clients[id]
        bound == client.remnawave_uuid # NoneUuid
        E1 == IF bound
              THEN Gateway(E0, "delete_user", "", client.remnawave_uuid, 0, gw)
              ELSE E0
        Efail == except_gateway_error(E1, id, "delete", NonePayload, gw)
        E2 == OperationRepository_create(E1, id, "delete",
                  NonePayload, SUCCESS, NoneError)
        E3 == ClientRepository_delete(E2, id)
    IN IF E0.raised # NoException THEN E0
       ELSE IF bound /\ gw # "ok" THEN Efail
       ELSE E3

\* Mutant of base_date: the new term always starts now
base_date_now(expires_at, t) == t

\* Mutant of base_date: the new term always starts at the stored expiry
base_date_stored(expires_at, t) == expires_at

\* extend_subscription: base_date = max(client.expires_at, now)
base_date(expires_at, t) == Max(expires_at, t)

\* Mutant of new_expires_at: min instead of max
new_expires_at_min(expires_at, t, days) ==
    (IF expires_at <= t THEN expires_at ELSE t) + days

\* extend_subscription: new_expires_at = base_date + timedelta(days=days)
new_expires_at(expires_at, t, days) == base_date(expires_at, t) + days

\* Mutant of extend_subscription: the client is updated before the gateway
\* call
extend_subscription_local_first(id, days, t, gw) ==
    LET E0 == get_client(Ctx0, id)
        client == E0.clients[id]
        new == new_expires_at(client.expires_at, t, days)
        bound == client.remnawave_uuid # NoneUuid
        Eupd == ClientRepository_update(E0, id, [client EXCEPT !.expires_at = new])
        E1 == IF bound
              THEN Gateway(Eupd, "update_expire_at", "", client.remnawave_uuid, new, gw)
              ELSE Eupd
        Efail == except_gateway_error(E1, id, "extend", [days |-> days], gw)
        E3 == OperationRepository_create(E1, id, "extend",
                  [days |-> days, new_expires_at |-> new], SUCCESS, NoneError)
    IN IF E0.raised # NoException THEN E0
       ELSE IF bound /\ gw # "ok" THEN Efail
       ELSE E3

\* Mutant of extend_subscription: the extension also sets the status to active
extend_subscription_reactivates(id, days, t, gw) ==
    LET E0 == get_client(Ctx0, id)
        client == E0.clients[id]
        new == new_expires_at(client.expires_at, t, days)
        bound == client.remnawave_uuid # NoneUuid
        E1 == IF bound
              THEN Gateway(E0, "update_expire_at", "", client.remnawave_uuid, new, gw)
              ELSE E0
        Efail == except_gateway_error(E1, id, "extend", [days |-> days], gw)
        E2 == ClientRepository_update(E1, id, [client EXCEPT !.expires_at = new,
                                                             !.status = ACTIVE])
        E3 == OperationRepository_create(E2, id, "extend",
                  [days |-> days, new_expires_at |-> new], SUCCESS, NoneError)
    IN IF E0.raised # NoException THEN E0
       ELSE IF bound /\ gw # "ok" THEN Efail
       ELSE E3

\* ClientService.extend_subscription; t is the value datetime.now() returns
extend_subscription(id, days, t, gw) ==
    LET E0 == get_client(Ctx0, id)
        client == E0.clients[id]
        new == new_expires_at(client.expires_at, t, days)
        bound == client.remnawave_uuid # NoneUuid
        E1 == IF bound
              THEN Gateway(E0, "update_expire_at", "", client.remnawave_uuid, new, gw)
              ELSE E0
        Efail == except_gateway_error(E1, id, "extend", [days |-> days], gw)
        E2 == ClientRepository_update(E1, id, [client EXCEPT !.expires_at = new])
        E3 == OperationRepository_create(E2, id, "extend",
                  [days |-> days, new_expires_at |-> new], SUCCESS, NoneError)
    IN IF E0.raised # NoException THEN E0
       ELSE IF bound /\ gw # "ok" THEN Efail
       ELSE E3

\* Mutant of block_refused: the status check is missing
block_never_refused(client) == FALSE

\* block_client: if client.status == ClientStatus.BLOCKED: raise
block_refused(client) == client.status = BLOCKED

\* Mutant of block_client: the success row is written with action unblock
block_client_audits_unblock(id, gw) ==
    LET E0 == get_client(Ctx0, id)
        client == E0.clients[id]
        bound == client.remnawave_uuid # NoneUuid
        E1 == IF bound
              THEN Gateway(E0, "disable_user", "", client.remnawave_uuid, 0, gw)
              ELSE E0
        Efail == except_gateway_error(E1, id, "block", NonePayload, gw)
        E2 == ClientRepository_update(E1, id, [client EXCEPT !.status = BLOCKED])
        E3 == OperationRepository_create(E2, id, "unblock",
                  NonePayload, SUCCESS, NoneError)
    IN IF E0.raised # NoException THEN E0
       ELSE IF block_refused(client) THEN Raise(E0, ClientAlreadyBlockedError)
       ELSE IF bound /\ gw # "ok" THEN Efail
       ELSE E3

\* ClientService.block_client
block_client(id, gw) ==
    LET E0 == get_client(Ctx0, id)
        client == E0.clients[id]
        bound == client.remnawave_uuid # NoneUuid
        E1 == IF bound
              THEN Gateway(E0, "disable_user", "", client.remnawave_uuid, 0, gw)
              ELSE E0
        Efail == except_gateway_error(E1, id, "block", NonePayload, gw)
        E2 == ClientRepository_update(E1, id, [client EXCEPT !.status = BLOCKED])
        E3 == OperationRepository_create(E2, id, "block",
                  NonePayload, SUCCESS, NoneError)
    IN IF E0.raised # NoException THEN E0
       ELSE IF block_refused(client) THEN Raise(E0, ClientAlreadyBlockedError)
       ELSE IF bound /\ gw # "ok" THEN Efail
       ELSE E3

\* Mutant of unblock_refused: the status check is missing
unblock_never_refused(client) == FALSE

\* unblock_client: if client.status != ClientStatus.BLOCKED: raise
unblock_refused(client) == client.status # BLOCKED

\* Mutant of unblock_client: the enable_user call is missing, only the local
\* status is set
unblock_client_local_only(id, gw) ==
    LET E0 == get_client(Ctx0, id)
        client == E0.clients[id]
        E2 == ClientRepository_update(E0, id, [client EXCEPT !.status = ACTIVE])
        E3 == OperationRepository_create(E2, id, "unblock",
                  NonePayload, SUCCESS, NoneError)
    IN IF E0.raised # NoException THEN E0
       ELSE IF unblock_refused(client) THEN Raise(E0, ClientNotBlockedError)
       ELSE E3

\* ClientService.unblock_client
unblock_client(id, gw) ==
    LET E0 == get_client(Ctx0, id)
        client == E0.clients[id]
        bound == client.remnawave_uuid # NoneUuid
        E1 == IF bound
              THEN Gateway(E0, "enable_user", "", client.remnawave_uuid, 0, gw)
              ELSE E0
        Efail == except_gateway_error(E1, id, "unblock", NonePayload, gw)
        E2 == ClientRepository_update(E1, id, [client EXCEPT !.status = ACTIVE])
        E3 == OperationRepository_create(E2, id, "unblock",
                  NonePayload, SUCCESS, NoneError)
    IN IF E0.raised # NoException THEN E0
       ELSE IF unblock_refused(client) THEN Raise(E0, ClientNotBlockedError)
       ELSE IF bound /\ gw # "ok" THEN Efail
       ELSE E3

\* Mutant of get_config: the short_uuid check is missing
get_config_unchecked(id, gw) ==
    LET E0 == get_client(Ctx0, id)
        client == E0.clients[id]
        E1 == Gateway(E0, "get_subscription_config", "", client.short_uuid, 0, gw)
        Efail == except_gateway_error(E1, id, "get_config", NonePayload, gw)
        E2 == OperationRepository_create(E1, id, "get_config",
                  NonePayload, SUCCESS, NoneError)
    IN IF E0.raised # NoException THEN E0
       ELSE IF gw # "ok" THEN Efail
       ELSE E2

\* ClientService.get_config
get_config(id, gw) ==
    LET E0 == get_client(Ctx0, id)
        client == E0.clients[id]
        E1 == Gateway(E0, "get_subscription_config", "", client.short_uuid, 0, gw)
        Efail == except_gateway_error(E1, id, "get_config", NonePayload, gw)
        E2 == OperationRepository_create(E1, id, "get_config",
                  NonePayload, SUCCESS, NoneError)
    IN IF E0.raised # NoException THEN E0
       ELSE IF client.short_uuid = NoneUuid
            THEN Raise(E0, ClientConfigUnavailableError)
       ELSE IF gw # "ok" THEN Efail
       ELSE E2

\* Mutant of rotate_config: only subscription_url is assigned, short_uuid
\* keeps the revoked value
rotate_config_stale(id, gw) ==
    LET E0 == get_client(Ctx0, id)
        client == E0.clients[id]
        E1 == Gateway(E0, "revoke_subscription", "", client.remnawave_uuid, 0, gw)
        Efail == except_gateway_error(E1, id, "rotate_config", NonePayload, gw)
        new_short == E0.remote.next_short
        E2 == ClientRepository_update(E1, id,
                  [client EXCEPT !.subscription_url = new_short])
        E3 == OperationRepository_create(E2, id, "rotate_config",
                  [new_short_uuid |-> new_short], SUCCESS, NoneError)
    IN IF E0.raised # NoException THEN E0
       ELSE IF client.remnawave_uuid = NoneUuid
            THEN Raise(E0, ClientConfigUnavailableError)
       ELSE IF gw # "ok" THEN Efail
       ELSE E3

\* Mutant of rotate_config: the new short_uuid is also assigned to
\* remnawave_uuid
rotate_config_rebinds(id, gw) ==
    LET E0 == get_client(Ctx0, id)
        client == E0.clients[id]
        E1 == Gateway(E0, "revoke_subscription", "", client.remnawave_uuid, 0, gw)
        Efail == except_gateway_error(E1, id, "rotate_config", NonePayload, gw)
        new_short == E0.remote.next_short
        E2 == ClientRepository_update(E1, id,
                  [client EXCEPT !.remnawave_uuid = new_short,
                                 !.short_uuid = new_short,
                                 !.subscription_url = new_short])
        E3 == OperationRepository_create(E2, id, "rotate_config",
                  [new_short_uuid |-> new_short], SUCCESS, NoneError)
    IN IF E0.raised # NoException THEN E0
       ELSE IF client.remnawave_uuid = NoneUuid
            THEN Raise(E0, ClientConfigUnavailableError)
       ELSE IF gw # "ok" THEN Efail
       ELSE E3

\* ClientService.rotate_config
rotate_config(id, gw) ==
    LET E0 == get_client(Ctx0, id)
        client == E0.clients[id]
        E1 == Gateway(E0, "revoke_subscription", "", client.remnawave_uuid, 0, gw)
        Efail == except_gateway_error(E1, id, "rotate_config", NonePayload, gw)
        new_short == E0.remote.next_short      \* rw_user.short_uuid
        E2 == ClientRepository_update(E1, id,
                  [client EXCEPT !.short_uuid = new_short,
                                 !.subscription_url = new_short])
        E3 == OperationRepository_create(E2, id, "rotate_config",
                  [new_short_uuid |-> new_short], SUCCESS, NoneError)
    IN IF E0.raised # NoException THEN E0
       ELSE IF client.remnawave_uuid = NoneUuid
            THEN Raise(E0, ClientConfigUnavailableError)
       ELSE IF gw # "ok" THEN Efail
       ELSE E3

\* Mutant of deactivate_one: the status is assigned before the gateway call,
\* so the except branch flushes a BLOCKED client with its FAIL row
deactivate_one_status_first(E, id, gw) ==
    LET client == E.clients[id]
        bound == client.remnawave_uuid # NoneUuid
        E0 == ClientRepository_update(E, id, [client EXCEPT !.status = BLOCKED])
        E1 == IF bound
              THEN Gateway(E0, "disable_user", "", client.remnawave_uuid, 0, gw)
              ELSE E0
        payload == [expired_at |-> client.expires_at]
        Efail == OperationRepository_create(E1, id, "auto_deactivate",
                     payload, FAIL, gw)
        E3 == OperationRepository_create(E1, id, "auto_deactivate",
                  payload, SUCCESS, NoneError)
    IN IF bound /\ gw # "ok" THEN Efail
       ELSE [E3 EXCEPT !.count = @ + 1]

\* Mutant of deactivate_one: the status is not assigned on the success path
deactivate_one_status_kept(E, id, gw) ==
    LET client == E.clients[id]
        bound == client.remnawave_uuid # NoneUuid
        E1 == IF bound
              THEN Gateway(E, "disable_user", "", client.remnawave_uuid, 0, gw)
              ELSE E
        payload == [expired_at |-> client.expires_at]
        Efail == OperationRepository_create(E1, id, "auto_deactivate",
                     payload, FAIL, gw)
        E2 == ClientRepository_update(E1, id, client)
        E3 == OperationRepository_create(E2, id, "auto_deactivate",
                  payload, SUCCESS, NoneError)
    IN IF bound /\ gw # "ok" THEN Efail
       ELSE [E3 EXCEPT !.count = @ + 1]

\* deactivate_expired: the body of the for loop, for one selected client
deactivate_one(E, id, gw) ==
    LET client == E.clients[id]
        bound == client.remnawave_uuid # NoneUuid
        E1 == IF bound
              THEN Gateway(E, "disable_user", "", client.remnawave_uuid, 0, gw)
              ELSE E
        payload == [expired_at |-> client.expires_at]
        Efail == OperationRepository_create(E1, id, "auto_deactivate",
                     payload, FAIL, gw)
        E2 == ClientRepository_update(E1, id, [client EXCEPT !.status = BLOCKED])
        E3 == OperationRepository_create(E2, id, "auto_deactivate",
                  payload, SUCCESS, NoneError)
    IN IF bound /\ gw # "ok" THEN Efail
       ELSE [E3 EXCEPT !.count = @ + 1]

\* Mutant of deactivate_loop: the loop ends at the first client whose call fails
RECURSIVE deactivate_loop_abort(_, _, _)
deactivate_loop_abort(E, expired_clients, gwf) ==
    IF expired_clients = <<>> THEN E
    ELSE IF gwf[Head(expired_clients)] # "ok"
         THEN deactivate_one(E, Head(expired_clients), gwf[Head(expired_clients)])
         ELSE deactivate_loop_abort(deactivate_one(E, Head(expired_clients),
                                                   gwf[Head(expired_clients)]),
                                    Tail(expired_clients), gwf)

RECURSIVE deactivate_loop(_, _, _)
\* deactivate_expired: for client in expired_clients
deactivate_loop(E, expired_clients, gwf) ==
    IF expired_clients = <<>> THEN E
    ELSE deactivate_loop(deactivate_one(E, Head(expired_clients),
                                        gwf[Head(expired_clients)]),
                         Tail(expired_clients), gwf)

\* ClientService.deactivate_expired; expired_clients is the query's result,
\* in the order the database returned it
deactivate_expired(expired_clients, gwf) ==
    deactivate_loop(Ctx0, expired_clients, gwf)

----------------------------------------------------------------------------
(* A request: the handler runs inside get_session's transaction scope.      *)

\* Mutant of get_session: the audit rows are written through a session that
\* is never committed
get_session_clients_only(E) ==
    IF E.raised = NoException
    THEN [clients |-> E.clients, operations |-> operations]
    ELSE [clients |-> clients, operations |-> operations]

\* get_session: yield session; commit -- except Exception: rollback; raise
get_session(E) ==
    IF E.raised = NoException
    THEN [clients |-> E.clients, operations |-> E.operations]
    ELSE [clients |-> clients, operations |-> operations]

\* The state after the request whose invocation ended in context E.  `last`
\* records the invocation: what it was, what it did, and the committed
\* tables and the panel as they were before it; it is kept until the
\* request's scope is left (Respond).
Request(op, id, username, days, t_read, t_after, E) ==
    LET db == get_session(E)
    IN /\ last.op = "idle"
       /\ clients' = db.clients
       /\ operations' = db.operations
       /\ remote' = E.remote
       /\ next_id' = E.next_id
       /\ now' = t_after
       /\ last' = [op |-> op, client_id |-> id, username |-> username,
                   days |-> days, raised |-> E.raised,
                   calls |-> E.calls, writes |-> E.writes,
                   appended |-> E.appended, order |-> E.order,
                   count |-> E.count,
                   now_before |-> now, now_read |-> t_read, now_after |-> t_after,
                   pre_clients |-> clients, pre_operations |-> operations,
                   status |-> NoFilter, expired |-> NoFilter, items |-> <<>>]
       /\ UNCHANGED sessions

Ids == 1..MaxClients
Drift == {0, 1}        \* the clock may advance while an invocation runs

Idle ==
    [op |-> "idle", client_id |-> 0, username |-> "", days |-> 0,
     raised |-> NoException, calls |-> <<>>, writes |-> <<>>,
     appended |-> <<>>, order |-> <<>>, count |-> 0,
     now_before |-> 0, now_read |-> 0, now_after |-> 0,
     pre_clients |-> <<>>, pre_operations |-> <<>>,
     status |-> NoFilter, expired |-> NoFilter, items |-> <<>>]

\* the workers that serve requests concurrently
Procs == {"w1", "w2"}

\* a worker with no request in progress
SessionIdle ==
    [pc |-> "idle", username |-> "", days |-> 0, expire_at |-> 0,
     rw_uuid |-> NoneUuid, rw_short |-> NoneUuid, client_id |-> 0,
     created_at |-> 0, raised |-> NoException,
     op |-> "", todo |-> <<>>, loaded |-> <<>>, new |-> 0,
     error |-> NoneError, pending |-> <<>>, dirty |-> <<>>, count |-> 0]

Init ==
    /\ clients = <<>>
    /\ operations = <<>>
    /\ remote = RemoteInit
    /\ now = 0
    /\ next_id = 1
    /\ last = Idle
    /\ sessions = [p \in Procs |-> SessionIdle]

\* the response is sent and the request's session and service are dropped
Respond ==
    /\ last.op # "idle"
    /\ last' = Idle
    /\ UNCHANGED <<clients, operations, remote, now, next_id, sessions>>

\* the clock advances between requests
Tick ==
    /\ last.op = "idle"
    /\ now < MaxTime
    /\ now' = now + 1
    /\ UNCHANGED <<clients, operations, remote, next_id, last, sessions>>

\* POST /clients
CreateClient ==
    /\ Len(operations) < MaxOps
    /\ next_id <= MaxClients
    /\ \E username \in Usernames, days \in Days, d1 \in Drift, d2 \in Drift,
          gw \in GatewayOutcomes :
          /\ now + d1 + d2 <= MaxTime
          /\ Request("create", 0, username, days, now + d1, now + d1 + d2,
                     create_client(username, days, now + d1, gw))

\* GET /clients: ClientService.get_clients returns what get_list returns;
\* last.items and last.count are the (clients, total) of the response
ListClients ==
    /\ last.op = "idle"
    /\ Len(operations) < MaxOps
    /\ \E status \in StatusFilters, expired \in ExpiredFilters :
          \E items \in get_list_items(Ctx0, status, expired, now) :
             last' = [Idle EXCEPT !.op = "list",
                                  !.status = status, !.expired = expired,
                                  !.items = items,
                                  !.count = get_list_total(Ctx0, status, expired, now),
                                  !.now_before = now, !.now_read = now,
                                  !.now_after = now,
                                  !.pre_clients = clients,
                                  !.pre_operations = operations]
    /\ UNCHANGED <<clients, operations, remote, now, next_id, sessions>>

\* GET /clients/{client_id}
GetClient ==
    \E id \in Ids :
        Request("get", id, "", 0, now, now, get_client(Ctx0, id))

\* DELETE /clients/{client_id}
DeleteClient ==
    /\ Len(operations) < MaxOps
    /\ \E id \in Ids, gw \in GatewayOutcomes :
          Request("delete", id, "", 0, now, now, delete_client(id, gw))

\* POST /clients/{client_id}/extend
ExtendSubscription ==
    /\ Len(operations) < MaxOps
    /\ \E id \in Ids, days \in Days, d1 \in Drift, d2 \in Drift,
          gw \in GatewayOutcomes :
          /\ now + d1 + d2 <= MaxTime
          /\ id \in DOMAIN clients =>
                new_expires_at(clients[id].expires_at, now + d1, days) <= MaxExpiry
          /\ Request("extend", id, "", days, now + d1, now + d1 + d2,
                     extend_subscription(id, days, now + d1, gw))

\* POST /clients/{client_id}/block
BlockClient ==
    /\ Len(operations) < MaxOps
    /\ \E id \in Ids, gw \in GatewayOutcomes :
          Request("block", id, "", 0, now, now, block_client(id, gw))

\* POST /clients/{client_id}/unblock
UnblockClient ==
    /\ Len(operations) < MaxOps
    /\ \E id \in Ids, gw \in GatewayOutcomes :
          Request("unblock", id, "", 0, now, now, unblock_client(id, gw))

\* GET /clients/{client_id}/config
GetConfig ==
    /\ Len(operations) < MaxOps
    /\ \E id \in Ids, gw \in GatewayOutcomes :
          Request("get_config", id, "", 0, now, now, get_config(id, gw))

\* POST /clients/{client_id}/config/rotate
RotateConfig ==
    /\ Len(operations) < MaxOps
    /\ \E id \in Ids, gw \in GatewayOutcomes :
          Request("rotate_config", id, "", 0, now, now, rotate_config(id, gw))

\* the scheduler's run of ClientService.deactivate_expired, in a session
\* that is committed when the method returns
DeactivateExpired ==
    LET selected == get_expired_active(Ctx0, now)
    IN /\ Len(operations) < MaxOps
       /\ \E expired_clients \in Orders(selected),
             gwf \in [selected -> GatewayOutcomes] :
             Request("deactivate_expired", 0, "", 0, now, now,
                     deactivate_expired(expired_clients, gwf))

Next ==
    \/ Respond
    \/ Tick
    \/ CreateClient
    \/ ListClients
    \/ GetClient
    \/ DeleteClient
    \/ ExtendSubscription
    \/ BlockClient
    \/ UnblockClient
    \/ GetConfig
    \/ RotateConfig
    \/ DeactivateExpired

Spec == Init /\ [][Next]_vars

----------------------------------------------------------------------------
(* The sweep under a scheduler that keeps invoking it, with a panel whose    *)
(* disable_user calls succeed again and again.                               *)

\* a run of deactivate_expired in which every disable_user call succeeds;
\* it is tried while the audit log has at most MaxOps + MaxClients rows,
\* which is more than the other requests and the failing sweeps can leave
SweepOk ==
    LET selected == get_expired_active(Ctx0, now)
    IN /\ Len(operations) <= MaxOps + MaxClients
       /\ \E expired_clients \in Orders(selected) :
             Request("deactivate_expired", 0, "", 0, now, now,
                     deactivate_expired(expired_clients,
                                        [i \in selected |-> "ok"]))

NextSweep ==
    \/ Respond
    \/ Tick
    \/ CreateClient
    \/ DeleteClient
    \/ ExtendSubscription
    \/ BlockClient
    \/ DeactivateExpired
    \/ SweepOk

\* every response is sent; the scheduler invokes the sweep again and again,
\* and again and again all its gateway calls succeed
SpecSweep ==
    Init /\ [][NextSweep]_vars /\ WF_vars(Respond) /\ SF_vars(SweepOk)

----------------------------------------------------------------------------
(* The service on a clients table that already holds a row.  The columns    *)
(* remnawave_uuid and short_uuid are nullable, and the service has a branch *)
(* for a row without them; create_client never stores such a row, so these  *)
(* branches are reached only from a table that holds one.                   *)

\* a stored client; uuid and short are its remnawave_uuid and short_uuid
StoredClient(uuid, short) ==
    [username |-> "alice", remnawave_uuid |-> uuid, short_uuid |-> short,
     subscription_url |-> short, status |-> ACTIVE, expires_at |-> 1,
     created_at |-> 0]

\* the panel that goes with it: the user of that uuid, if there is one
StoredRemote(uuid, short) ==
    IF uuid = NoneUuid
    THEN [users |-> <<>>, next_uuid |-> 2, next_short |-> 2]
    ELSE [users |-> [u \in {uuid} |->
                        [username |-> "alice", status |-> "ACTIVE",
                         expire_at |-> 1, short_uuid |-> short]],
          next_uuid |-> 2, next_short |-> 2]

InitStored ==
    /\ \E uuid \in {NoneUuid, 1}, short \in {NoneUuid, 1} :
          /\ clients = [i \in {1} |-> StoredClient(uuid, short)]
          /\ remote = StoredRemote(uuid, short)
    /\ operations = <<>>
    /\ now = 0
    /\ next_id = 2
    /\ last = Idle
    /\ sessions = [p \in Procs |-> SessionIdle]

\* the requests on the stored client; no client is added beside it
NextStored ==
    \/ Respond
    \/ Tick
    \/ ListClients
    \/ GetClient
    \/ DeleteClient
    \/ ExtendSubscription
    \/ BlockClient
    \/ UnblockClient
    \/ GetConfig
    \/ RotateConfig
    \/ DeactivateExpired

SpecStored == InitStored /\ [][NextStored]_vars

----------------------------------------------------------------------------
(* Concurrent create_client requests.  Each worker runs create_client in    *)
(* its own session on PostgreSQL: a query sees the committed rows; an       *)
(* INSERT is checked against the unique index of clients.username when the  *)
(* session flushes it, waits while another session holds an uncommitted row *)
(* with the same username, and raises IntegrityError when a committed row   *)
(* has it; the session's rows become visible at commit.  The clock stands   *)
(* still while the requests race.                                           *)

IntegrityError == "IntegrityError"

\* the workers past the duplicate check whose request has not ended
InFlight == {p \in Procs : sessions[p].pc \in {"gateway", "insert", "commit"}}

\* Mutant of UniqueViolation: the username column has no unique index
UniqueViolation_off(tbl, username) == FALSE

\* Client.username unique=True: a committed row already has the username
UniqueViolation(tbl, username) ==
    \E i \in DOMAIN tbl : tbl[i].username = username

\* the INSERT waits for a session holding an uncommitted row of that username
InsertWaits(p, username) ==
    \E q \in Procs \ {p} :
        sessions[q].pc = "commit" /\ sessions[q].username = username

\* the request of worker p ends with exception exc: get_session rolls back
SessionRaise(p, exc) ==
    [sessions EXCEPT ![p].pc = "done", ![p].raised = exc]

\* create_client, lines 73-76: the duplicate check on the committed rows
CreateCheck(p) ==
    /\ sessions[p].pc = "idle"
    /\ Len(operations) + Cardinality(InFlight) < MaxOps
    /\ (next_id - 1) + Cardinality(InFlight) < MaxClients
    /\ \E username \in Usernames, days \in Days :
          LET S == [sessions EXCEPT ![p].username = username, ![p].days = days,
                                    ![p].created_at = now]
          IN sessions' = IF get_by_username(Ctx0, username) # {}
                         THEN [S EXCEPT ![p].pc = "done",
                                        ![p].raised = ClientAlreadyExistsError]
                         ELSE [S EXCEPT ![p].pc = "gateway"]
    /\ UNCHANGED <<clients, operations, remote, now, next_id, last>>

\* create_client, lines 78-87: expire_at and the create_user call
CreateGateway(p) ==
    /\ sessions[p].pc = "gateway"
    /\ \E gw \in GatewayOutcomes :
          LET expire_at == now + sessions[p].days
              E == Gateway(Ctx0, "create_user", sessions[p].username, NoneUuid,
                           expire_at, gw)
          IN /\ remote' = E.remote
             /\ sessions' = IF gw = "ok"
                             THEN [sessions EXCEPT ![p].pc = "insert",
                                                   ![p].expire_at = expire_at,
                                                   ![p].rw_uuid = remote.next_uuid,
                                                   ![p].rw_short = remote.next_short]
                             ELSE SessionRaise(p, RemnawaveIntegrationError)
    /\ UNCHANGED <<clients, operations, now, next_id, last>>

\* create_client, lines 90-106: ClientRepository.create flushes the INSERT;
\* the audit row is added to the same session
CreateInsert(p) ==
    /\ sessions[p].pc = "insert"
    /\ ~InsertWaits(p, sessions[p].username)
    /\ IF UniqueViolation(clients, sessions[p].username)
       THEN /\ sessions' = SessionRaise(p, IntegrityError)
            /\ UNCHANGED next_id
       ELSE /\ sessions' = [sessions EXCEPT ![p].pc = "commit",
                                            ![p].client_id = next_id]
            /\ next_id' = next_id + 1
    /\ UNCHANGED <<clients, operations, remote, now, last>>

\* get_session: the handler has returned, session.commit()
CreateCommit(p) ==
    /\ sessions[p].pc = "commit"
    /\ LET s == sessions[p]
           client == [username |-> s.username,
                      remnawave_uuid |-> s.rw_uuid,
                      short_uuid |-> s.rw_short,
                      subscription_url |-> s.rw_short,
                      status |-> ACTIVE,
                      expires_at |-> s.expire_at,
                      created_at |-> s.created_at]
           operation == [client_id |-> s.client_id, action |-> "create",
                         payload |-> [username |-> s.username, days |-> s.days],
                         result |-> SUCCESS, error |-> NoneError]
       IN /\ clients' = [i \in DOMAIN clients \cup {s.client_id} |->
                            IF i = s.client_id THEN client ELSE clients[i]]
          /\ operations' = Append(operations, operation)
    /\ sessions' = [sessions EXCEPT ![p].pc = "done"]
    /\ UNCHANGED <<remote, now, next_id, last>>

\* the response of worker p is sent
SessionClose(p) ==
    /\ sessions[p].pc = "done"
    /\ sessions' = [sessions EXCEPT ![p] = SessionIdle]
    /\ UNCHANGED <<clients, operations, remote, now, next_id, last>>

NextCreateRace ==
    \/ \E p \in Procs : CreateCheck(p)
    \/ \E p \in Procs : CreateGateway(p)
    \/ \E p \in Procs : CreateInsert(p)
    \/ \E p \in Procs : CreateCommit(p)
    \/ \E p \in Procs : SessionClose(p)
    \/ DeleteClient
    \/ Respond

SpecCreateRace == Init /\ [][NextCreateRace]_vars

----------------------------------------------------------------------------
(* Concurrent requests on one client.  Each worker serves one request at a  *)
(* time, in its own session on PostgreSQL at the default isolation level    *)
(* (READ COMMITTED; create_async_engine sets none): session.get and the     *)
(* queries see the committed rows; the UPDATE that ClientRepository.update  *)
(* flushes sets the columns the request assigned, holds the row's lock      *)
(* until the session ends, and waits for a session that holds it; the       *)
(* INSERT of an audit row is checked against the foreign key of             *)
(* operations.client_id, holds a key-share lock on the client's row, and    *)
(* waits for an uncommitted DELETE of that row; the DELETE waits for both   *)
(* kinds of lock.  What a session has flushed is in sessions[p].dirty (the  *)
(* client rows) and sessions[p].pending (the audit rows) until it commits.  *)
(* The clock stands still while the requests race.                          *)

StaleDataError == "StaleDataError"
PendingRollbackError == "PendingRollbackError"
DeadlockDetected == "DeadlockDetected"

\* the client the requests race on
RaceId == 1

RaceOps == {"delete", "extend", "block", "unblock", "get_config",
            "rotate_config", "deactivate_expired"}
StatusOps == {"block", "unblock", "deactivate_expired"}
ExtendOps == {"extend", "deactivate_expired"}

RacePcs == {"gateway", "fail_audit", "audit", "write", "commit"}

\* the workers whose request is past its first read and has not ended
RaceInFlight == {p \in Procs : sessions[p].pc \in RacePcs}

\* the state after create_client("alice", MinDays) at time 0, some time later
InitRace ==
    /\ clients = [i \in {RaceId} |-> StoredClient(1, 1)]
    /\ remote = StoredRemote(1, 1)
    /\ operations = << [client_id |-> RaceId, action |-> "create",
                        payload |-> [username |-> "alice", days |-> MinDays],
                        result |-> SUCCESS, error |-> NoneError] >>
    /\ now \in {0, MaxTime}
    /\ next_id = 2
    /\ last = Idle
    /\ sessions = [p \in Procs |-> SessionIdle]

\* the marker of a flushed DELETE in sessions[p].dirty
Deleted == [deleted |-> TRUE]

\* the row c with the columns cols of a flushed UPDATE
Merged(c, cols) ==
    [f \in DOMAIN c |-> IF f \in DOMAIN cols THEN cols[f] ELSE c[f]]

\* the flushed rows d with the change `cols` of row id
Put(d, id, cols) ==
    [i \in DOMAIN d \cup {id} |-> IF i = id THEN cols ELSE d[i]]

\* session q holds the lock of an uncommitted UPDATE or DELETE of row id
HoldsRowLock(q, id) ==
    sessions[q].pc \in RacePcs /\ id \in DOMAIN sessions[q].dirty

\* session q holds the lock of an uncommitted DELETE of row id
HoldsDelete(q, id) ==
    HoldsRowLock(q, id) /\ sessions[q].dirty[id] = Deleted

\* session q holds the key-share lock that its uncommitted audit row took on
\* row id
HoldsKeyShare(q, id) ==
    /\ sessions[q].pc \in RacePcs
    /\ \E k \in DOMAIN sessions[q].pending : sessions[q].pending[k].client_id = id

\* Mutant of ForeignKeyViolation: operations.client_id has no foreign key
ForeignKeyViolation_off(tbl, id) == FALSE

\* Operation.client_id ForeignKey("clients.id"): no committed row has that id
ForeignKeyViolation(tbl, id) == id \notin DOMAIN tbl

\* the request of worker p ends with exception exc: get_session rolls back
RaceRaise(p, exc) ==
    [sessions EXCEPT ![p].pc = "done", ![p].raised = exc,
                     ![p].pending = <<>>, ![p].dirty = <<>>]

\* ActionType of the audit rows of a request
ActionOf(op) == IF op = "deactivate_expired" THEN "auto_deactivate" ELSE op

\* the adapter method a request calls
MethodOf(op) ==
    CASE op = "delete" -> "delete_user"
      [] op = "extend" -> "update_expire_at"
      [] op = "block" -> "disable_user"
      [] op = "unblock" -> "enable_user"
      [] op = "get_config" -> "get_subscription_config"
      [] op = "rotate_config" -> "revoke_subscription"
      [] op = "deactivate_expired" -> "disable_user"

\* where a request goes on with the clients `todo` left to handle: the
\* sweep's loop takes the next client, any other request returns
LoopPc(todo, loaded) ==
    IF todo = <<>> THEN "commit"
    ELSE IF loaded[Head(todo)].remnawave_uuid # NoneUuid THEN "gateway"
    ELSE "write"

\* the validation a request makes on the client it loaded
Refused(op, client) ==
    CASE op = "block" /\ block_refused(client) -> ClientAlreadyBlockedError
      [] op = "unblock" /\ unblock_refused(client) -> ClientNotBlockedError
      [] op = "get_config" /\ client.short_uuid = NoneUuid ->
            ClientConfigUnavailableError
      [] op = "rotate_config" /\ client.remnawave_uuid = NoneUuid ->
            ClientConfigUnavailableError
      [] OTHER -> NoException

\* the first statement of a request of `ops`: get_client (session.get) for a
\* request on the client, get_expired_active for the sweep, and the checks
\* made on what was read
RaceBegin(p, ops) ==
    /\ sessions[p].pc = "idle"
    /\ Len(operations) + Cardinality(RaceInFlight) <= MaxOps
    /\ \E op \in ops, days \in Days :
          LET S == [sessions EXCEPT ![p].op = op]
              E0 == get_client(Ctx0, RaceId)
              client == clients[RaceId]
              new == new_expires_at(client.expires_at, now, days)
          IN IF op = "deactivate_expired"
             THEN \E expired_clients \in Orders(get_expired_active(Ctx0, now)) :
                     LET loaded == [i \in get_expired_active(Ctx0, now) |-> clients[i]]
                     IN sessions' = [S EXCEPT ![p].todo = expired_clients,
                                              ![p].loaded = loaded,
                                              ![p].pc = LoopPc(expired_clients, loaded)]
             ELSE IF E0.raised # NoException
             THEN sessions' = [S EXCEPT ![p].pc = "done", ![p].raised = E0.raised]
             ELSE IF Refused(op, client) # NoException
             THEN sessions' = [S EXCEPT ![p].pc = "done",
                                        ![p].raised = Refused(op, client)]
             ELSE /\ op = "extend" => new <= MaxExpiry
                  /\ sessions' =
                        [S EXCEPT ![p].client_id = RaceId,
                                  ![p].todo = <<RaceId>>,
                                  ![p].loaded = [i \in {RaceId} |-> client],
                                  ![p].days = IF op = "extend" THEN days ELSE 0,
                                  ![p].new = IF op = "extend" THEN new ELSE 0,
                                  ![p].pc =
                                     IF op \in {"get_config", "rotate_config"}
                                        \/ client.remnawave_uuid # NoneUuid
                                     THEN "gateway"
                                     ELSE IF op = "delete" THEN "audit"
                                     ELSE "write"]
    /\ UNCHANGED <<clients, operations, remote, now, next_id, last>>

\* await self._remnawave.<method>(...) for the client at hand
RaceGateway(p) ==
    /\ sessions[p].pc = "gateway"
    /\ \E gw \in GatewayOutcomes :
          LET s == sessions[p]
              c == s.loaded[Head(s.todo)]
              target == IF s.op = "get_config" THEN c.short_uuid
                        ELSE c.remnawave_uuid
              E == Gateway(Ctx0, MethodOf(s.op), "", target, s.new, gw)
          IN /\ remote' = E.remote
             /\ sessions' =
                   IF gw = "ok"
                   THEN [sessions EXCEPT
                            ![p].pc = IF s.op \in {"get_config", "delete"}
                                      THEN "audit" ELSE "write",
                            ![p].new = IF s.op = "rotate_config"
                                       THEN remote.next_short ELSE @]
                   ELSE [sessions EXCEPT ![p].pc = "fail_audit", ![p].error = gw]
    /\ UNCHANGED <<clients, operations, now, next_id, last>>

\* except Exception as exc: the FAIL row is flushed; the sweep goes on with
\* the next client, any other request raises RemnawaveIntegrationError
RaceFailAudit(p) ==
    LET s == sessions[p]
        id == Head(s.todo)
        payload == CASE s.op = "extend" -> [days |-> s.days]
                     [] s.op = "deactivate_expired" ->
                           [expired_at |-> s.loaded[id].expires_at]
                     [] OTHER -> NonePayload
        row == [client_id |-> id, action |-> ActionOf(s.op), payload |-> payload,
                result |-> FAIL, error |-> s.error]
    IN /\ s.pc = "fail_audit"
       /\ ~\E q \in Procs \ {p} : HoldsDelete(q, id)
       /\ sessions' =
             IF ForeignKeyViolation(clients, id)
             THEN RaceRaise(p, IntegrityError)
             ELSE IF s.op = "deactivate_expired"
             THEN [sessions EXCEPT ![p].pending = Append(@, row),
                                   ![p].todo = Tail(@),
                                   ![p].pc = LoopPc(Tail(s.todo), s.loaded)]
             ELSE RaceRaise(p, RemnawaveIntegrationError)
       /\ UNCHANGED <<clients, operations, remote, now, next_id, last>>

\* the success row of get_config, and of delete_client before the row is
\* deleted.  delete_client writes it inside its try block: when the INSERT
\* fails, the except branch fails in turn on the session, whose transaction
\* the failed flush has ended
RaceAudit(p) ==
    LET s == sessions[p]
        id == Head(s.todo)
        row == [client_id |-> id, action |-> ActionOf(s.op),
                payload |-> NonePayload, result |-> SUCCESS, error |-> NoneError]
    IN /\ s.pc = "audit"
       /\ ~\E q \in Procs \ {p} : HoldsDelete(q, id)
       /\ sessions' =
             IF ForeignKeyViolation(clients, id)
             THEN RaceRaise(p, IF s.op = "delete" THEN PendingRollbackError
                               ELSE IntegrityError)
             ELSE [sessions EXCEPT ![p].pending = Append(@, row),
                                   ![p].pc = IF s.op = "delete" THEN "write"
                                             ELSE "commit"]
       /\ UNCHANGED <<clients, operations, remote, now, next_id, last>>

\* the columns a request assigns on the client it loaded
Assigned(s) ==
    CASE s.op = "extend" -> [expires_at |-> s.new]
      [] s.op = "block" -> [status |-> BLOCKED]
      [] s.op = "deactivate_expired" -> [status |-> BLOCKED]
      [] s.op = "unblock" -> [status |-> ACTIVE]
      [] s.op = "rotate_config" -> [short_uuid |-> s.new, subscription_url |-> s.new]

\* ClientRepository.update (flush of the UPDATE, refresh) followed by the
\* success row, or ClientRepository.delete.  An UPDATE that matches no row
\* raises StaleDataError; in the sweep the except branch then fails on the
\* session, whose transaction the failed flush has ended
RaceWrite(p) ==
    LET s == sessions[p]
        id == Head(s.todo)
        payload == CASE s.op = "extend" ->
                           [days |-> s.days, new_expires_at |-> s.new]
                     [] s.op = "rotate_config" -> [new_short_uuid |-> s.new]
                     [] s.op = "deactivate_expired" ->
                           [expired_at |-> clients[id].expires_at]
                     [] OTHER -> NonePayload
        row == [client_id |-> id, action |-> ActionOf(s.op), payload |-> payload,
                result |-> SUCCESS, error |-> NoneError]
    IN /\ s.pc = "write"
       /\ ~\E q \in Procs \ {p} : HoldsRowLock(q, id)
       /\ s.op = "delete" => ~\E q \in Procs \ {p} : HoldsKeyShare(q, id)
       /\ sessions' =
             IF id \notin DOMAIN clients
             THEN RaceRaise(p, IF s.op = "deactivate_expired"
                               THEN PendingRollbackError ELSE StaleDataError)
             ELSE IF s.op = "delete"
             THEN [sessions EXCEPT ![p].dirty = Put(@, id, Deleted),
                                   ![p].pc = "commit"]
             ELSE [sessions EXCEPT
                      ![p].dirty = Put(@, id, Assigned(s)),
                      ![p].pending = Append(@, row),
                      ![p].count = IF s.op = "deactivate_expired" THEN @ + 1 ELSE @,
                      ![p].todo = Tail(@),
                      ![p].pc = LoopPc(Tail(s.todo), s.loaded)]
       /\ UNCHANGED <<clients, operations, remote, now, next_id, last>>

\* two delete_client requests each hold the key-share lock of their success
\* row and wait for the other's: PostgreSQL ends one of them
RaceDeadlock(p) ==
    LET s == sessions[p]
        id == Head(s.todo)
    IN /\ s.pc = "write" /\ s.op = "delete"
       /\ HoldsKeyShare(p, id)
       /\ \E q \in Procs \ {p} :
             /\ sessions[q].pc = "write" /\ sessions[q].op = "delete"
             /\ HoldsKeyShare(q, id)
       /\ sessions' = RaceRaise(p, DeadlockDetected)
       /\ UNCHANGED <<clients, operations, remote, now, next_id, last>>

\* get_session: the method has returned, session.commit()
RaceCommit(p) ==
    LET s == sessions[p]
        deleted == {i \in DOMAIN s.dirty : s.dirty[i] = Deleted}
        ops == operations \o s.pending
    IN /\ s.pc = "commit"
       /\ clients' = [i \in DOMAIN clients \ deleted |->
                         IF i \in DOMAIN s.dirty
                         THEN Merged(clients[i], s.dirty[i])
                         ELSE clients[i]]
       /\ operations' = IF deleted = {} THEN ops
                        ELSE CascadeDelete(ops, CHOOSE i \in deleted : TRUE)
       /\ sessions' = [sessions EXCEPT ![p].pc = "done",
                                       ![p].pending = <<>>, ![p].dirty = <<>>]
       /\ UNCHANGED <<remote, now, next_id, last>>

\* block_client, unblock_client and the sweep, concurrently
NextStatusRace ==
    \/ \E p \in Procs : RaceBegin(p, StatusOps)
    \/ \E p \in Procs : RaceGateway(p)
    \/ \E p \in Procs : RaceFailAudit(p)
    \/ \E p \in Procs : RaceWrite(p)
    \/ \E p \in Procs : RaceCommit(p)
    \/ \E p \in Procs : SessionClose(p)

SpecStatusRace == InitRace /\ [][NextStatusRace]_vars

\* extend_subscription and the sweep, concurrently
NextExtendRace ==
    \/ \E p \in Procs : RaceBegin(p, ExtendOps)
    \/ \E p \in Procs : RaceGateway(p)
    \/ \E p \in Procs : RaceFailAudit(p)
    \/ \E p \in Procs : RaceWrite(p)
    \/ \E p \in Procs : RaceCommit(p)
    \/ \E p \in Procs : SessionClose(p)

SpecExtendRace == InitRace /\ [][NextExtendRace]_vars

\* every request on the client, concurrently
NextRace ==
    \/ \E p \in Procs : RaceBegin(p, RaceOps)
    \/ \E p \in Procs : RaceGateway(p)
    \/ \E p \in Procs : RaceFailAudit(p)
    \/ \E p \in Procs : RaceAudit(p)
    \/ \E p \in Procs : RaceWrite(p)
    \/ \E p \in Procs : RaceDeadlock(p)
    \/ \E p \in Procs : RaceCommit(p)
    \/ \E p \in Procs : SessionClose(p)

SpecRace == InitRace /\ [][NextRace]_vars

----------------------------------------------------------------------------
(* Properties.  In a state where last.op is not "idle", `last` describes the *)
(* invocation that has just ended, last.pre_clients / last.pre_operations    *)
(* are the committed tables before it, and clients / operations are the      *)
(* committed tables after it.  Respond and Tick change neither table.        *)

Invoked(op) == last.op = op
Succeeded == last.raised = NoException
ReachedGateway == last.calls # <<>>
GatewayOk == ReachedGateway /\ last.calls[1].outcome = "ok"
GatewayFailed == ReachedGateway /\ last.calls[1].outcome # "ok"
Existed(i) == i \in DOMAIN last.pre_clients
Old(i) == last.pre_clients[i]
AuditedOps == {"delete", "extend", "block", "unblock", "get_config", "rotate_config"}

\* number of rows of the audit log `ops` for client i and action a
RECURSIVE CountRows(_, _, _)
CountRows(ops, i, a) ==
    IF ops = <<>> THEN 0
    ELSE (IF Head(ops).client_id = i /\ Head(ops).action = a THEN 1 ELSE 0)
         + CountRows(Tail(ops), i, a)

\* C1: every client's status is active or blocked; a client is created
\* active; a status changes only active -> blocked, by a successful
\* block_client of that client or by deactivate_expired recording a success
\* auto_deactivate row for it, and blocked -> active, by a successful
\* unblock_client of that client.
C1_StatusMachine ==
    /\ \A i \in DOMAIN clients : clients[i].status \in ClientStatus
    /\ ~Invoked("idle") =>
          \A i \in DOMAIN clients :
             IF ~Existed(i)
             THEN Invoked("create") /\ Succeeded /\ clients[i].status = ACTIVE
             ELSE clients[i].status # Old(i).status =>
                    \/ /\ Old(i).status = ACTIVE
                       /\ clients[i].status = BLOCKED
                       /\ \/ Invoked("block") /\ last.client_id = i /\ Succeeded
                          \/ /\ Invoked("deactivate_expired")
                             /\ \E k \in DOMAIN last.appended :
                                   /\ last.appended[k].client_id = i
                                   /\ last.appended[k].action = "auto_deactivate"
                                   /\ last.appended[k].result = SUCCESS
                    \/ /\ Old(i).status = BLOCKED
                       /\ clients[i].status = ACTIVE
                       /\ Invoked("unblock") /\ last.client_id = i /\ Succeeded

\* C1 witness: an unblock_client has just taken a blocked client back to active
C1_Witness ==
    /\ Invoked("unblock") /\ Succeeded
    /\ Old(last.client_id).status = BLOCKED
    /\ clients[last.client_id].status = ACTIVE

\* C2: an invocation of delete, extend, block, unblock, get_config or
\* rotate_config that reaches the gateway adds exactly one audit row, for that
\* client and action, with result success iff the gateway call succeeded;
\* create_client adds no row when create_user fails and exactly one success
\* create row, for the new client, when it succeeds.
C2_OneAuditRowPerGatewayCall ==
    /\ (last.op \in AuditedOps /\ ReachedGateway) =>
          /\ Len(last.appended) = 1
          /\ last.appended[1].client_id = last.client_id
          /\ last.appended[1].action = last.op
          /\ last.appended[1].result \in OperationResult
          /\ last.appended[1].result = SUCCESS <=> GatewayOk
    /\ (Invoked("create") /\ GatewayFailed) => last.appended = <<>>
    /\ (Invoked("create") /\ GatewayOk) =>
          /\ Len(last.appended) = 1
          /\ last.appended[1].action = "create"
          /\ last.appended[1].result = SUCCESS
          /\ last.appended[1].client_id \in DOMAIN clients \ DOMAIN last.pre_clients

\* C2 witness: an extend_subscription whose gateway call failed has added its row
C2_Witness ==
    /\ Invoked("extend") /\ GatewayFailed
    /\ Len(last.appended) = 1 /\ last.appended[1].result = FAIL

\* C3 (as claimed): when the gateway call of delete, extend, block, unblock,
\* get_config or rotate_config fails, the fail row the invocation wrote is in
\* the committed audit log after the invocation has raised and get_session
\* has rolled the business session back.
C3_FailRowCommitted ==
    (last.op \in AuditedOps /\ GatewayFailed /\ last.raised = RemnawaveIntegrationError) =>
        /\ Len(operations) = Len(last.pre_operations) + 1
        /\ operations[Len(operations)] = last.appended[1]

\* C4: block_client on a blocked client raises ClientAlreadyBlockedError with
\* no gateway call, no repository write and no audit row, and both tables are
\* as before; and right after a successful block_client(id), a second
\* block_client(id) is refused whatever the gateway would answer, so the two
\* invocations together leave one block row more than there was before.
C4_BlockBlockedRefused ==
    /\ (Invoked("block") /\ Existed(last.client_id)
            /\ Old(last.client_id).status = BLOCKED) =>
          /\ last.raised = ClientAlreadyBlockedError
          /\ last.calls = <<>> /\ last.writes = <<>> /\ last.appended = <<>>
          /\ clients = last.pre_clients
          /\ operations = last.pre_operations
    /\ (Invoked("block") /\ Succeeded) =>
          \A gw \in GatewayOutcomes :
             LET E == block_client(last.client_id, gw)
             IN /\ E.raised = ClientAlreadyBlockedError
                /\ E.calls = <<>> /\ E.appended = <<>>
                /\ CountRows(get_session(E).operations, last.client_id, "block")
                     = CountRows(last.pre_operations, last.client_id, "block") + 1

\* C4 witness: a block_client of a blocked client has just been refused, and
\* the client's one block row is the one of the earlier successful block
C4_Witness ==
    /\ Invoked("block") /\ last.raised = ClientAlreadyBlockedError
    /\ CountRows(operations, last.client_id, "block") = 1

\* C5: unblock_client on an active client raises ClientNotBlockedError with no
\* gateway call, no repository write and no audit row, and both tables are as
\* before.
C5_UnblockActiveRefused ==
    (Invoked("unblock") /\ Existed(last.client_id)
        /\ Old(last.client_id).status = ACTIVE) =>
          /\ last.raised = ClientNotBlockedError
          /\ last.calls = <<>> /\ last.writes = <<>> /\ last.appended = <<>>
          /\ clients = last.pre_clients
          /\ operations = last.pre_operations

\* C5 witness: an unblock_client of an active client has just been refused
C5_Witness ==
    /\ Invoked("unblock") /\ last.raised = ClientNotBlockedError
    /\ Old(last.client_id).status = ACTIVE

\* C6: a successful extend_subscription(id, d) of a client whose expires_at is
\* not before the clock value the invocation read sets expires_at to the old
\* expires_at + d, and that value is the one passed to update_expire_at and
\* taken by the panel.
C6_ExtendFutureAddsDays ==
    (Invoked("extend") /\ Succeeded /\ Old(last.client_id).expires_at >= last.now_read) =>
        LET i == last.client_id
            new == Old(i).expires_at + last.days
        IN /\ clients[i].expires_at = new
           /\ Len(last.calls) = 1
           /\ last.calls[1].method = "update_expire_at"
           /\ last.calls[1].target = Old(i).remnawave_uuid
           /\ last.calls[1].arg = new
           /\ remote.users[Old(i).remnawave_uuid].expire_at = new

\* C6 witness: an extension of a subscription that had not run out (its
\* expiry strictly after the clock) has succeeded
C6_Witness ==
    /\ Invoked("extend") /\ Succeeded
    /\ Old(last.client_id).expires_at > last.now_read

\* C7: a successful extend_subscription(id, d) of a client whose expires_at is
\* before the clock value the invocation read sets expires_at to that clock
\* value + d, which lies between (clock before the invocation) + d and (clock
\* after it) + d, and which is not the old expires_at + d.
C7_ExtendPastStartsNow ==
    (Invoked("extend") /\ Succeeded /\ Old(last.client_id).expires_at < last.now_read) =>
        LET i == last.client_id
            new == clients[i].expires_at
        IN /\ new = last.now_read + last.days
           /\ last.now_before + last.days <= new
           /\ new <= last.now_after + last.days
           /\ new # Old(i).expires_at + last.days

\* C7 witness: an extension of a subscription that had run out has succeeded
C7_Witness ==
    /\ Invoked("extend") /\ Succeeded
    /\ Old(last.client_id).expires_at < last.now_read

\* C8: no invocation lowers a client's expires_at; it changes only by a
\* successful extend_subscription of that client; and every successful
\* extend_subscription, for every days value the request schema accepts,
\* leaves it strictly greater than before.
C8_ExpiryOnlyGrows ==
    ~Invoked("idle") =>
        /\ \A i \in DOMAIN clients \cap DOMAIN last.pre_clients :
              /\ clients[i].expires_at >= Old(i).expires_at
              /\ clients[i].expires_at # Old(i).expires_at =>
                    Invoked("extend") /\ last.client_id = i /\ Succeeded
        /\ (Invoked("extend") /\ Succeeded) =>
              clients[last.client_id].expires_at > Old(last.client_id).expires_at

\* C8 witness: a successful extension has raised an expiry
C8_Witness ==
    /\ Invoked("extend") /\ Succeeded
    /\ clients[last.client_id].expires_at > Old(last.client_id).expires_at

\* C9: when the gateway call of extend, block, unblock, get_config or
\* rotate_config fails, the invocation raises RemnawaveIntegrationError
\* without having written to the clients table, every client record is what
\* it was before, and the one row it wrote is a fail row carrying the
\* gateway's error text -- for extend with payload {days}.
C9_GatewayFailureLeavesRecord ==
    (last.op \in AuditedOps \ {"delete"} /\ GatewayFailed) =>
        /\ last.raised = RemnawaveIntegrationError
        /\ last.writes = <<>>
        /\ clients = last.pre_clients
        /\ Len(last.appended) = 1
        /\ last.appended[1].result = FAIL
        /\ last.appended[1].error = last.calls[1].outcome
        /\ Invoked("extend") => last.appended[1].payload = [days |-> last.days]

\* C9 witness: a rotate_config whose revoke_subscription failed has raised
C9_Witness ==
    /\ Invoked("rotate_config") /\ GatewayFailed
    /\ last.raised = RemnawaveIntegrationError

\* C10: when delete_user fails, delete_client writes one fail delete row,
\* raises RemnawaveIntegrationError and has not deleted the local row: the
\* client is still there with the record it had, and a later delete_client
\* whose gateway call succeeds removes it.
C10_DeleteFailureKeepsRecord ==
    (Invoked("delete") /\ GatewayFailed) =>
        LET i == last.client_id
        IN /\ last.raised = RemnawaveIntegrationError
           /\ Len(last.appended) = 1
           /\ last.appended[1] = [client_id |-> i, action |-> "delete",
                                  payload |-> NonePayload, result |-> FAIL,
                                  error |-> last.calls[1].outcome]
           /\ last.writes = <<>>
           /\ i \in DOMAIN clients
           /\ clients = last.pre_clients
           /\ LET E == delete_client(i, "ok")
              IN E.raised = NoException /\ i \notin DOMAIN get_session(E).clients

\* C10 witness: a delete_client whose delete_user failed has raised and the
\* client is still stored
C10_Witness ==
    /\ Invoked("delete") /\ GatewayFailed
    /\ last.raised = RemnawaveIntegrationError
    /\ last.client_id \in DOMAIN clients

\* C11: after a successful delete_client(id) the client is gone and no audit
\* row refers to it -- the delete row the invocation itself wrote included;
\* and for every id that was handed out and deleted, in every later state, no
\* audit row refers to it and get_client raises ClientNotFoundError.
C11_DeleteCascades ==
    /\ (Invoked("delete") /\ Succeeded) =>
          /\ last.client_id \notin DOMAIN clients
          /\ \E k \in DOMAIN last.appended :
                last.appended[k].client_id = last.client_id
          /\ \A k \in DOMAIN operations : operations[k].client_id # last.client_id
    /\ \A i \in (1..(next_id - 1)) \ DOMAIN clients :
          /\ \A k \in DOMAIN operations : operations[k].client_id # i
          /\ get_client(Ctx0, i).raised = ClientNotFoundError
    /\ (Invoked("get") /\ ~Existed(last.client_id)) =>
          last.raised = ClientNotFoundError

\* C11 witness: a get_client of an id that was deleted earlier has just
\* raised ClientNotFoundError
C11_Witness ==
    /\ Invoked("get") /\ last.raised = ClientNotFoundError
    /\ last.client_id < next_id
    /\ last.client_id \notin DOMAIN clients

\* C12: when create_user fails, create_client raises
\* RemnawaveIntegrationError having written neither a client nor an audit
\* row: the clients table and the audit log are what they were before.
C12_CreateFailureLeavesNothing ==
    (Invoked("create") /\ GatewayFailed) =>
        /\ last.raised = RemnawaveIntegrationError
        /\ last.writes = <<>>
        /\ last.appended = <<>>
        /\ clients = last.pre_clients
        /\ operations = last.pre_operations

\* C12 witness: a create_client whose create_user failed has raised, with a
\* client already stored beside it
C12_Witness ==
    /\ Invoked("create") /\ GatewayFailed
    /\ last.raised = RemnawaveIntegrationError
    /\ clients # <<>>

\* C13: a successful create_client(username, days) stores exactly one new
\* client: that username, status active, the uuid / short_uuid /
\* subscription_url the panel returned, and expires_at = (clock value read) +
\* days, which is the expiry passed to create_user and lies between (clock
\* before) + days and (clock after) + days; no other client changes; and it
\* adds exactly one audit row, for the new client: create, success, payload
\* {username, days}.
C13_CreateStoresClient ==
    (Invoked("create") /\ Succeeded) =>
        LET new_ids == DOMAIN clients \ DOMAIN last.pre_clients
        IN /\ Cardinality(new_ids) = 1
           /\ \A i \in DOMAIN last.pre_clients :
                 i \in DOMAIN clients /\ clients[i] = Old(i)
           /\ \A i \in new_ids :
                 LET c == clients[i]
                     call == last.calls[1]
                 IN /\ Len(last.calls) = 1
                    /\ call.method = "create_user" /\ call.outcome = "ok"
                    /\ call.username = last.username
                    /\ c.username = last.username
                    /\ c.status = ACTIVE
                    /\ c.remnawave_uuid \in DOMAIN remote.users
                    /\ remote.users[c.remnawave_uuid].username = last.username
                    /\ c.short_uuid = remote.users[c.remnawave_uuid].short_uuid
                    /\ c.subscription_url = remote.users[c.remnawave_uuid].short_uuid
                    /\ c.expires_at = last.now_read + last.days
                    /\ c.expires_at = call.arg
                    /\ c.expires_at = remote.users[c.remnawave_uuid].expire_at
                    /\ last.now_before + last.days <= c.expires_at
                    /\ c.expires_at <= last.now_after + last.days
                    /\ last.appended =
                          <<[client_id |-> i, action |-> "create",
                             payload |-> [username |-> last.username,
                                          days |-> last.days],
                             result |-> SUCCESS, error |-> NoneError]>>
                    /\ operations = Append(last.pre_operations, last.appended[1])

\* C13 witness: a second client has been created, while the clock moved
\* during the invocation
C13_Witness ==
    /\ Invoked("create") /\ Succeeded
    /\ Cardinality(DOMAIN clients) = 2
    /\ last.now_before < last.now_after

\* C14: create_client with a username a stored client already has raises
\* ClientAlreadyExistsError before any gateway call: no panel user is
\* created, no client is added and no audit row is written.
C14_DuplicateUsernameRefused ==
    (Invoked("create")
        /\ \E i \in DOMAIN last.pre_clients : Old(i).username = last.username) =>
        /\ last.raised = ClientAlreadyExistsError
        /\ last.calls = <<>>
        /\ last.writes = <<>>
        /\ last.appended = <<>>
        /\ clients = last.pre_clients
        /\ operations = last.pre_operations
        /\ \A u \in DOMAIN remote.users :
              \E i \in DOMAIN clients : clients[i].remnawave_uuid = u

\* C14 witness: a create_client with a stored client's username has been refused
C14_Witness ==
    /\ Invoked("create") /\ last.raised = ClientAlreadyExistsError
    /\ \E i \in DOMAIN clients : clients[i].username = last.username

\* C15: in every committed state no two clients have the same username, also
\* when create_client requests for one username run concurrently and each
\* passes the get_by_username check before the other commits: the unique
\* index on clients.username lets at most one of them store a client.
C15_UsernameUnique ==
    /\ \A i, j \in DOMAIN clients :
          i # j => clients[i].username # clients[j].username
    /\ \A p, q \in Procs :
          (p # q /\ sessions[p].pc = "commit" /\ sessions[q].pc = "commit") =>
              sessions[p].username # sessions[q].username

\* C15 witness: two requests for one username both passed the check; one has
\* committed its client and the other's INSERT raised IntegrityError
C15_Witness ==
    \E p, q \in Procs :
        /\ sessions[p].pc = "done" /\ sessions[p].raised = NoException
        /\ sessions[q].pc = "done" /\ sessions[q].raised = IntegrityError
        /\ sessions[p].username = sessions[q].username
        /\ sessions[p].client_id \in DOMAIN clients

\* the clients for which the sweep that has just ended wrote a fail row
SweepFailed ==
    {last.appended[k].client_id : k \in
        {k \in DOMAIN last.appended : last.appended[k].result = FAIL}}

\* C16 (as claimed): right after a deactivate_expired run, with the clock
\* where it was, a second run returns 0 and changes no client, whatever the
\* gateway answered in the first run.
C16_SecondSweepReturnsZero ==
    Invoked("deactivate_expired") =>
        LET selected == get_expired_active(Ctx0, now)
        IN \A expired_clients \in Orders(selected),
              gwf \in [selected -> GatewayOutcomes] :
              LET E == deactivate_expired(expired_clients, gwf)
              IN E.count = 0 /\ E.clients = clients

\* C16 (amended): right after a deactivate_expired run, with the clock where
\* it was, a second run selects exactly the clients whose disable_user call
\* failed in the first run; it returns the number of those whose call now
\* succeeds, and when no call of the first run failed it selects nothing,
\* returns 0, calls the gateway for nobody and writes nothing.
C16_SecondSweepRetriesFailures ==
    Invoked("deactivate_expired") =>
        LET selected == get_expired_active(Ctx0, now)
        IN /\ selected = SweepFailed
           /\ \A expired_clients \in Orders(selected),
                 gwf \in [selected -> GatewayOutcomes] :
                 LET E == deactivate_expired(expired_clients, gwf)
                 IN /\ E.count = Cardinality({i \in selected : gwf[i] = "ok"})
                    /\ SweepFailed = {} =>
                          /\ E.count = 0
                          /\ E.calls = <<>> /\ E.writes = <<>> /\ E.appended = <<>>
                          /\ E.clients = clients /\ E.operations = operations

\* C16 witness: a sweep has deactivated a client and none of its calls failed
C16_Witness ==
    /\ Invoked("deactivate_expired")
    /\ last.count >= 1
    /\ SweepFailed = {}

\* C17: deactivate_expired raises nothing and handles every client that was
\* active and expired when it ran, each with one disable_user call and one
\* auto_deactivate row, in the order of the query's result: when the call
\* failed the row is a fail row with the gateway's error text and the client's
\* record is unchanged (still active), and the later clients are handled all
\* the same; when it succeeded the row is a success row and the client is
\* blocked.  The returned count is the number of clients switched from active
\* to blocked, which is the number of success rows, and success rows plus
\* fail rows are as many as the selected clients.
C17_SweepIsolatesFailures ==
    Invoked("deactivate_expired") =>
        LET selected == get_expired_active([clients |-> last.pre_clients],
                                           last.now_read)
            rows == last.appended
            ok_rows == {k \in DOMAIN rows : rows[k].result = SUCCESS}
            fail_rows == {k \in DOMAIN rows : rows[k].result = FAIL}
            switched == {i \in DOMAIN last.pre_clients :
                            Old(i).status = ACTIVE /\ clients[i].status = BLOCKED}
        IN /\ last.raised = NoException
           /\ DOMAIN clients = DOMAIN last.pre_clients
           /\ Len(rows) = Cardinality(selected)
           /\ Len(last.calls) = Cardinality(selected)
           /\ {rows[k].client_id : k \in DOMAIN rows} = selected
           /\ \A k \in DOMAIN rows :
                 LET i == rows[k].client_id
                 IN /\ rows[k].action = "auto_deactivate"
                    /\ rows[k].payload = [expired_at |-> Old(i).expires_at]
                    /\ last.calls[k].method = "disable_user"
                    /\ last.calls[k].target = Old(i).remnawave_uuid
                    /\ IF last.calls[k].outcome = "ok"
                       THEN /\ rows[k].result = SUCCESS
                            /\ rows[k].error = NoneError
                            /\ clients[i] = [Old(i) EXCEPT !.status = BLOCKED]
                       ELSE /\ rows[k].result = FAIL
                            /\ rows[k].error = last.calls[k].outcome
                            /\ clients[i] = Old(i)
           /\ last.count = Cardinality(switched)
           /\ last.count = Cardinality(ok_rows)
           /\ Cardinality(ok_rows) + Cardinality(fail_rows) = Cardinality(selected)
           /\ operations = last.pre_operations \o rows

\* C17 witness: a sweep over two clients whose first call failed has
\* deactivated the second
C17_Witness ==
    /\ Invoked("deactivate_expired")
    /\ Len(last.appended) = 2
    /\ last.appended[1].result = FAIL
    /\ last.appended[2].result = SUCCESS
    /\ last.count = 1

\* C18: get, delete, extend, block, unblock, get_config and rotate_config of
\* an id with no client raise ClientNotFoundError; get_config of a client
\* without short_uuid and rotate_config of a client without remnawave_uuid
\* raise ClientConfigUnavailableError; each time without a gateway call, a
\* write to the clients table or an audit row, and with both tables as before.
C18_PreconditionsBeforeEffects ==
    LET refused(exc) ==
            /\ last.raised = exc
            /\ last.calls = <<>>
            /\ last.writes = <<>>
            /\ last.appended = <<>>
            /\ clients = last.pre_clients
            /\ operations = last.pre_operations
    IN /\ (last.op \in AuditedOps \cup {"get"} /\ ~Existed(last.client_id)) =>
             refused(ClientNotFoundError)
       /\ (Invoked("get_config") /\ Existed(last.client_id)
              /\ Old(last.client_id).short_uuid = NoneUuid) =>
             refused(ClientConfigUnavailableError)
       /\ (Invoked("rotate_config") /\ Existed(last.client_id)
              /\ Old(last.client_id).remnawave_uuid = NoneUuid) =>
             refused(ClientConfigUnavailableError)

\* C18 witness: a get_config of a client without short_uuid has been refused
C18_Witness ==
    /\ Invoked("get_config")
    /\ Existed(last.client_id)
    /\ Old(last.client_id).short_uuid = NoneUuid
    /\ last.raised = ClientConfigUnavailableError

\* C19: an invocation other than create_client that raises
\* RemnawaveIntegrationError has written exactly one audit row, a fail row
\* for its client and action whose error is the text of the gateway's
\* exception; and every audit row, written by the invocation or committed,
\* has an error iff its result is fail.
C19_FailRowCarriesError ==
    /\ (last.raised = RemnawaveIntegrationError /\ ~Invoked("create")) =>
          /\ last.op \in AuditedOps
          /\ GatewayFailed
          /\ Len(last.appended) = 1
          /\ last.appended[1].client_id = last.client_id
          /\ last.appended[1].action = last.op
          /\ last.appended[1].result = FAIL
          /\ last.appended[1].error \in GatewayErrors
          /\ last.appended[1].error = last.calls[1].outcome
    /\ \A k \in DOMAIN last.appended :
          last.appended[k].error # NoneError <=> last.appended[k].result = FAIL
    /\ \A k \in DOMAIN operations :
          operations[k].error # NoneError <=> operations[k].result = FAIL

\* C19 witness: a block_client whose disable_user was rejected has raised,
\* and its fail row carries that text
C19_Witness ==
    /\ Invoked("block") /\ last.raised = RemnawaveIntegrationError
    /\ Len(last.appended) = 1
    /\ last.appended[1].result = FAIL
    /\ last.appended[1].error = "rejected"

\* C20: no invocation changes the id, the username or the remnawave_uuid of a
\* stored client: the client under an id keeps the remnawave_uuid bound by
\* create_client until it is deleted, and an id is never given to a second
\* client; a successful rotate_config changes short_uuid and
\* subscription_url and nothing else of the record.
C20_RemoteIdFixed ==
    ~Invoked("idle") =>
        /\ \A i \in DOMAIN clients \cap DOMAIN last.pre_clients :
              /\ clients[i].remnawave_uuid = Old(i).remnawave_uuid
              /\ clients[i].username = Old(i).username
        /\ \A i \in DOMAIN clients \ DOMAIN last.pre_clients :
              /\ Invoked("create") /\ Succeeded
              /\ i = next_id - 1
              /\ clients[i].remnawave_uuid # NoneUuid
              /\ \A j \in DOMAIN clients \ {i} :
                    clients[j].remnawave_uuid # clients[i].remnawave_uuid
        /\ (Invoked("rotate_config") /\ Succeeded) =>
              LET i == last.client_id
              IN /\ clients[i] = [Old(i) EXCEPT
                                     !.short_uuid = clients[i].short_uuid,
                                     !.subscription_url = clients[i].subscription_url]
                 /\ clients[i].short_uuid # Old(i).short_uuid

\* C20 witness: a rotate_config has replaced the short_uuid of a client that
\* keeps its remnawave_uuid
C20_Witness ==
    /\ Invoked("rotate_config") /\ Succeeded
    /\ clients[last.client_id].short_uuid # Old(last.client_id).short_uuid
    /\ clients[last.client_id].remnawave_uuid = Old(last.client_id).remnawave_uuid

\* C21: a successful rotate_config stores the short_uuid and subscription_url
\* the panel returned (the panel's current ones for that user), leaves status
\* and expires_at as they were, and adds one success rotate_config row whose
\* payload is the new short_uuid; a get_config after it asks the panel with
\* the new short_uuid, not with the previous one.
C21_RotateStoresNewProfile ==
    (Invoked("rotate_config") /\ Succeeded) =>
        LET i == last.client_id
            c == clients[i]
        IN /\ Len(last.calls) = 1
           /\ last.calls[1].method = "revoke_subscription"
           /\ last.calls[1].target = Old(i).remnawave_uuid
           /\ c.short_uuid = remote.users[c.remnawave_uuid].short_uuid
           /\ c.subscription_url = remote.users[c.remnawave_uuid].short_uuid
           /\ c.short_uuid # Old(i).short_uuid
           /\ c.status = Old(i).status
           /\ c.expires_at = Old(i).expires_at
           /\ last.appended =
                 <<[client_id |-> i, action |-> "rotate_config",
                    payload |-> [new_short_uuid |-> c.short_uuid],
                    result |-> SUCCESS, error |-> NoneError]>>
           /\ \A gw \in GatewayOutcomes :
                 LET E == get_config(i, gw)
                 IN /\ Len(E.calls) = 1
                    /\ E.calls[1].method = "get_subscription_config"
                    /\ E.calls[1].target = c.short_uuid
                    /\ E.calls[1].target # Old(i).short_uuid

\* C21 witness: the configuration of a blocked client has been rotated
C21_Witness ==
    /\ Invoked("rotate_config") /\ Succeeded
    /\ Old(last.client_id).status = BLOCKED
    /\ clients[last.client_id].short_uuid = remote.next_short - 1

\* C22: get_clients(status, expired) returns each client that matches the
\* filters exactly once and no other: expired = true selects expires_at <
\* now, false selects expires_at >= now, None selects all, and status, when
\* given, selects that status; for one status filter the true and the false
\* selection are disjoint and together are the selection without expired
\* filter; total is the number of clients returned; the clients come with
\* created_at descending; and the tables are not changed.
C22_ListMatchesFilters ==
    Invoked("list") =>
        LET returned == {last.items[k] : k \in DOMAIN last.items}
            wanted == {i \in DOMAIN clients :
                          /\ (last.status \in ClientStatus =>
                                 clients[i].status = last.status)
                          /\ (last.expired = "true" =>
                                 clients[i].expires_at < last.now_read)
                          /\ (last.expired = "false" =>
                                 ~(clients[i].expires_at < last.now_read))}
            sel(e) == get_list_where(Ctx0, last.status, e, last.now_read)
        IN /\ returned = wanted
           /\ Len(last.items) = Cardinality(returned)
           /\ last.count = Len(last.items)
           /\ sel("true") \cap sel("false") = {}
           /\ sel("true") \cup sel("false") = sel(NoFilter)
           /\ last.expired = NoFilter /\ last.status = NoFilter =>
                 returned = DOMAIN clients
           /\ \A a, b \in DOMAIN last.items :
                 a < b => clients[last.items[a]].created_at
                            >= clients[last.items[b]].created_at
           /\ clients = last.pre_clients
           /\ operations = last.pre_operations

\* C22 witness: a list with expired = false has returned two clients, the
\* newer first, one of them expiring exactly now
C22_Witness ==
    /\ Invoked("list") /\ last.expired = "false"
    /\ Len(last.items) = 2
    /\ clients[last.items[1]].created_at > clients[last.items[2]].created_at
    /\ \E k \in DOMAIN last.items : clients[last.items[k]].expires_at = now

\* the invocation that has just ended acted on a client without remnawave_uuid
Unbound == Existed(last.client_id) /\ Old(last.client_id).remnawave_uuid = NoneUuid

\* C23: in extend_subscription, block_client, unblock_client and
\* rotate_config the steps come in the order gateway call, update of the
\* client, success row; the client is updated only after the gateway call
\* has succeeded, or was skipped because the client has no remnawave_uuid;
\* after a failed call the steps are gateway call, fail row, and no client
\* record differs from what it was.
C23_GatewayBeforeLocalWrite ==
    last.op \in {"extend", "block", "unblock", "rotate_config"} =>
        /\ last.order \in {<<>>, <<"gateway", "write", "audit">>,
                            <<"write", "audit">>, <<"gateway", "audit">>}
        /\ last.order = <<"gateway", "write", "audit">> =>
              GatewayOk /\ Succeeded /\ last.appended[1].result = SUCCESS
        /\ last.order = <<"write", "audit">> =>
              /\ Unbound /\ last.op # "rotate_config"
              /\ Succeeded /\ last.appended[1].result = SUCCESS
        /\ last.order = <<"gateway", "audit">> =>
              GatewayFailed /\ last.appended[1].result = FAIL
        /\ GatewayFailed =>
              /\ last.order = <<"gateway", "audit">>
              /\ last.writes = <<>>
              /\ clients = last.pre_clients
        /\ last.writes # <<>> => (GatewayOk \/ (Unbound /\ last.calls = <<>>))
        /\ clients # last.pre_clients => ~GatewayFailed

\* C23 witness: an unblock_client has called the gateway, then updated the
\* client, then written its success row
C23_Witness ==
    /\ Invoked("unblock") /\ Succeeded
    /\ last.order = <<"gateway", "write", "audit">>
    /\ clients[last.client_id].status = ACTIVE

C25_SweepFrame ==
    Invoked("deactivate_expired") =>
        LET due == {i \in DOMAIN last.pre_clients :
                       Old(i).status = ACTIVE /\ Old(i).expires_at < last.now_read}
        IN /\ DOMAIN clients = DOMAIN last.pre_clients
           /\ \A i \in DOMAIN last.pre_clients \ due :
                 /\ clients[i] = Old(i)
                 /\ \A k \in DOMAIN last.calls :
                       last.calls[k].target # Old(i).remnawave_uuid
                 /\ \A k \in DOMAIN last.appended :
                       last.appended[k].client_id # i
                 /\ \A k \in DOMAIN operations \ DOMAIN last.pre_operations :
                       operations[k].client_id # i
           /\ \A k \in DOMAIN last.calls : last.calls[k].method = "disable_user"
           /\ \A i \in DOMAIN clients :
                 /\ clients[i].expires_at = Old(i).expires_at
                 /\ clients[i].remnawave_uuid = Old(i).remnawave_uuid
                 /\ clients[i].short_uuid = Old(i).short_uuid
                 /\ clients[i].subscription_url = Old(i).subscription_url

\* C25 witness: a sweep has deactivated one client and left alone an active
\* client that expires exactly now
C25_Witness ==
    /\ Invoked("deactivate_expired") /\ last.count = 1
    /\ \E j \in DOMAIN clients :
          /\ clients[j].status = ACTIVE
          /\ clients[j].expires_at = last.now_read
          /\ clients[j] = Old(j)

\* C26: with the sweep invoked again and again and its disable_user calls
\* succeeding again and again, every client that is active with expires_at <
\* now is eventually blocked, unless it is extended or deleted first; a
\* client whose call failed in one sweep is selected again by the next.
C26_ExpiredEventuallyBlocked ==
    \A i \in Ids :
        (i \in DOMAIN clients /\ clients[i].status = ACTIVE
            /\ clients[i].expires_at < now)
        ~> (\/ i \notin DOMAIN clients
            \/ clients[i].status = BLOCKED
            \/ clients[i].expires_at >= now)

\* C26 witness: a sweep has blocked a client for which an earlier sweep had
\* written a fail row
C26_Witness ==
    /\ Invoked("deactivate_expired")
    /\ \E k \in DOMAIN last.appended, j \in DOMAIN last.pre_operations :
          /\ last.appended[k].result = SUCCESS
          /\ last.pre_operations[j].client_id = last.appended[k].client_id
          /\ last.pre_operations[j].action = "auto_deactivate"
          /\ last.pre_operations[j].result = FAIL
          /\ clients[last.appended[k].client_id].status = BLOCKED

\* the rows of client i in the audit log ops, in order
RowsOf(ops, i) == SelectSeq(ops, LAMBDA o : o.client_id = i)

IsPrefix(s, t) == Len(s) <= Len(t) /\ SubSeq(t, 1, Len(s)) = s

\* C27: the committed audit log only grows at its end, except that a
\* successful delete_client removes exactly the rows of the deleted client:
\* no invocation changes or removes a row of a client that still exists, and
\* for such a client the rows it had are a prefix of the rows it has.
C27_AuditAppendOnly ==
    ~Invoked("idle") =>
        LET deleted == DOMAIN last.pre_clients \ DOMAIN clients
            kept == SelectSeq(last.pre_operations,
                              LAMBDA o : o.client_id \notin deleted)
        IN /\ IsPrefix(kept, operations)
           /\ deleted = {} => IsPrefix(last.pre_operations, operations)
           /\ deleted # {} =>
                 /\ Invoked("delete") /\ Succeeded
                 /\ deleted = {last.client_id}
                 /\ operations = kept
           /\ \A i \in DOMAIN clients :
                 IsPrefix(RowsOf(last.pre_operations, i), RowsOf(operations, i))

\* C27 witness: a delete_client has removed the rows of its client and left
\* the rows of another
C27_Witness ==
    /\ Invoked("delete") /\ Succeeded
    /\ operations # <<>>
    /\ Len(operations) < Len(last.pre_operations)
    /\ operations = SelectSeq(last.pre_operations,
                              LAMBDA o : o.client_id # last.client_id)

\* C28: the set of stored clients changes only by a successful create_client,
\* which adds one client, and a successful delete_client, which removes its
\* client; get_client, get_clients and get_config change no client record,
\* get_client and get_clients change nothing at all and a successful
\* get_config only adds its success row; block_client and unblock_client
\* leave expires_at, remnawave_uuid, short_uuid and subscription_url as they
\* were; and an invocation for one client changes no other client's record.
C28_ClientSetFrame ==
    ~Invoked("idle") =>
        LET old == DOMAIN last.pre_clients
            new == DOMAIN clients
            i == last.client_id
        IN /\ new # old =>
                 \/ /\ Invoked("create") /\ Succeeded
                    /\ old \subseteq new /\ Cardinality(new \ old) = 1
                 \/ /\ Invoked("delete") /\ Succeeded
                    /\ new \subseteq old /\ old \ new = {i}
           /\ (Invoked("create") /\ Succeeded) =>
                 Cardinality(new) = Cardinality(old) + 1
           /\ (Invoked("delete") /\ Succeeded) =>
                 Cardinality(new) = Cardinality(old) - 1
           /\ last.op \in {"get", "list", "get_config"} =>
                 clients = last.pre_clients
           /\ last.op \in {"get", "list"} =>
                 /\ operations = last.pre_operations
                 /\ last.calls = <<>> /\ last.writes = <<>> /\ last.appended = <<>>
           /\ (Invoked("get_config") /\ Succeeded) =>
                 /\ last.writes = <<>>
                 /\ operations = Append(last.pre_operations,
                        [client_id |-> i, action |-> "get_config",
                         payload |-> NonePayload, result |-> SUCCESS,
                         error |-> NoneError])
           /\ (last.op \in {"block", "unblock"} /\ Existed(i)) =>
                 clients[i] = [Old(i) EXCEPT !.status = clients[i].status]
           /\ last.op \in AuditedOps \cup {"get"} =>
                 \A j \in (old \cap new) \ {i} : clients[j] = Old(j)
           /\ Invoked("create") =>
                 \A j \in old : j \in new /\ clients[j] = Old(j)

\* C28 witness: one of two clients has been blocked and the other has the
\* record it had
C28_Witness ==
    /\ Invoked("block") /\ Succeeded
    /\ clients[last.client_id].status = BLOCKED
    /\ \E j \in DOMAIN clients \ {last.client_id} : clients[j] = Old(j)

\* C29: after a create_client, extend_subscription, block_client,
\* unblock_client or rotate_config request has ended, the committed tables
\* hold either both the change of the client and the success row of that
\* action for that client, or neither: the change is committed iff the
\* request returned normally, and so is the row.
C29_WriteAndAuditTogether ==
    last.op \in {"create", "extend", "block", "unblock", "rotate_config"} =>
        LET changed == clients # last.pre_clients
            audited ==
                /\ Len(operations) = Len(last.pre_operations) + 1
                /\ IsPrefix(last.pre_operations, operations)
                /\ operations[Len(operations)].action = last.op
                /\ operations[Len(operations)].result = SUCCESS
                /\ IF Invoked("create")
                   THEN operations[Len(operations)].client_id
                           \in DOMAIN clients \ DOMAIN last.pre_clients
                   ELSE operations[Len(operations)].client_id = last.client_id
        IN /\ changed <=> audited
           /\ changed <=> Succeeded
           /\ ~changed => operations = last.pre_operations
           /\ Succeeded => last.writes # <<>> /\ Len(last.appended) = 1

\* C29 witness: an extend_subscription has committed the new expires_at and
\* the success row that carries it
C29_Witness ==
    /\ Invoked("extend") /\ Succeeded
    /\ Len(operations) = Len(last.pre_operations) + 1
    /\ operations[Len(operations)].payload =
          [days |-> last.days,
           new_expires_at |-> clients[last.client_id].expires_at]

\* C30: an invocation of create_client, delete_client, extend_subscription,
\* block_client, unblock_client, get_config or rotate_config makes at most
\* one gateway call, and exactly one when that call failed (no second
\* attempt); get_client and get_clients make none; a run of
\* deactivate_expired makes at most one call for each client it selected and
\* none for any other.
C30_OneGatewayCall ==
    /\ last.op \in AuditedOps \cup {"create"} =>
          /\ Len(last.calls) <= 1
          /\ last.raised = RemnawaveIntegrationError => Len(last.calls) = 1
          /\ Len(SelectSeq(last.order, LAMBDA x : x = "gateway")) = Len(last.calls)
    /\ last.op \in {"get", "list"} => last.calls = <<>>
    /\ Invoked("deactivate_expired") =>
          LET due == {i \in DOMAIN last.pre_clients :
                         Old(i).status = ACTIVE
                         /\ Old(i).expires_at < last.now_read}
          IN /\ Len(last.calls) <= Cardinality(due)
             /\ \A k \in DOMAIN last.calls :
                   /\ \E i \in due : Old(i).remnawave_uuid = last.calls[k].target
                   /\ \A l \in DOMAIN last.calls :
                         k # l => last.calls[k].target # last.calls[l].target

\* C30 witness: a get_config whose call failed has made that one call
C30_Witness ==
    /\ Invoked("get_config") /\ GatewayFailed
    /\ Len(last.calls) = 1
    /\ last.calls[1].target = clients[last.client_id].short_uuid

\* C31: with the requests served one after another and gateway calls that
\* may fail (a failed call leaves the panel as it was), in every state
\* between requests every stored client has its panel user, the client is
\* blocked iff that user is disabled, the client's expires_at is the user's
\* expire_at, and the client's short_uuid is the user's current short_uuid.
C31_StoresAgree ==
    \A i \in DOMAIN clients :
        LET c == clients[i]
        IN /\ c.remnawave_uuid \in DOMAIN remote.users
           /\ LET u == remote.users[c.remnawave_uuid]
              IN /\ c.status = BLOCKED <=> u.status = "DISABLED"
                 /\ c.expires_at = u.expire_at
                 /\ c.short_uuid = u.short_uuid

\* C31 witness: an unblock_client whose enable_user failed has ended; the
\* client, blocked by an earlier request, is still blocked and its panel user
\* still disabled
C31_Witness ==
    /\ Invoked("unblock") /\ GatewayFailed
    /\ clients[last.client_id].status = BLOCKED
    /\ remote.users[clients[last.client_id].remnawave_uuid].status = "DISABLED"

\* C32 (as claimed): whatever the interleaving of concurrent block_client,
\* unblock_client and deactivate_expired requests on one client, once every
\* request has ended the client is blocked iff its panel user is disabled.
C32_StatusAgreesAfterRace ==
    RaceInFlight = {} =>
        \A i \in DOMAIN clients :
            clients[i].status = BLOCKED
               <=> remote.users[clients[i].remnawave_uuid].status = "DISABLED"

\* worker p has served an extend_subscription request that returned normally
\* and was committed, and its response has not been sent yet
ExtendDone(p) ==
    /\ sessions[p].pc = "done" /\ sessions[p].op = "extend"
    /\ sessions[p].raised = NoException

\* C33 (as claimed): when two extend_subscription requests on one client,
\* by d1 and d2 days, have run concurrently (both read the same expires_at,
\* which was in the future) and both have succeeded, expires_at is the old
\* value + d1 + d2 in the clients table and at the panel.
C33_ConcurrentExtendsAdd ==
    \A p, q \in Procs :
        (/\ p # q /\ ExtendDone(p) /\ ExtendDone(q)
         /\ sessions[p].loaded[RaceId].expires_at
               = sessions[q].loaded[RaceId].expires_at
         /\ sessions[p].loaded[RaceId].expires_at > now)
        => LET sum == sessions[p].loaded[RaceId].expires_at
                          + sessions[p].days + sessions[q].days
           IN /\ clients[RaceId].expires_at = sum
              /\ remote.users[clients[RaceId].remnawave_uuid].expire_at = sum

\* C34 (as claimed): the sweep sets no client to blocked whose committed
\* expires_at is in the future: while a deactivate_expired session holds its
\* flushed, uncommitted status = blocked for a client, the expires_at
\* committed for that client -- by an extend_subscription that committed
\* before the sweep's write, if there was one -- is before the clock.
C34_SweepSparesExtended ==
    \A p \in Procs :
        (sessions[p].op = "deactivate_expired" /\ sessions[p].pc = "commit") =>
            \A i \in DOMAIN sessions[p].dirty :
                sessions[p].dirty[i] = [status |-> BLOCKED] =>
                    clients[i].expires_at < now

\* C35 (as claimed): whenever no request is in progress, every panel user
\* that was created through the gateway and not deleted through it is the
\* remnawave_uuid of exactly one stored client -- also after concurrent
\* create_client requests with one username, of which the losing INSERT was
\* rejected by the unique index.
C35_NoOrphanRemoteIdentity ==
    InFlight = {} =>
        \A u \in DOMAIN remote.users :
            Cardinality({i \in DOMAIN clients : clients[i].remnawave_uuid = u}) = 1

\* C36: in every committed state the client_id of every audit row is the
\* id of a stored client, whatever the interleaving of a delete_client with
\* concurrent requests on the same client: an audit row that a request
\* inserts after the delete has committed is rejected by the foreign key and
\* the request is rolled back.
C36_AuditRefersToClient ==
    \A k \in DOMAIN operations : operations[k].client_id \in DOMAIN clients

\* C36 witness: a get_config request that had read the client and called
\* the panel has inserted its audit row after a concurrent delete_client
\* committed; the INSERT raised IntegrityError and the client is gone
C36_Witness ==
    /\ RaceId \notin DOMAIN clients
    /\ \E p \in Procs :
          /\ sessions[p].pc = "done" /\ sessions[p].op = "get_config"
          /\ sessions[p].raised = IntegrityError

\* C37: create_user returning a uuid and a short_uuid that are not empty,
\* every stored client has a remnawave_uuid and a short_uuid in every
\* reachable state; so for a client created by create_client, delete_client,
\* extend_subscription, block_client and unblock_client that pass their
\* checks always make their gateway call, the sweep makes one call for each
\* client it selected, and no request raises ClientConfigUnavailableError.
C37_AlwaysBound ==
    /\ \A i \in DOMAIN clients :
          clients[i].remnawave_uuid # NoneUuid /\ clients[i].short_uuid # NoneUuid
    /\ last.raised # ClientConfigUnavailableError
    /\ (/\ last.op \in {"delete", "extend", "block", "unblock"}
        /\ last.raised \in {NoException, RemnawaveIntegrationError})
          => Len(last.calls) = 1
    /\ last.op \in {"get_config", "rotate_config"} /\ Existed(last.client_id)
          => Len(last.calls) = 1
    /\ Invoked("deactivate_expired") =>
          /\ Len(last.calls) = Len(last.appended)
          /\ Len(last.calls) =
                Cardinality({i \in DOMAIN last.pre_clients :
                                Old(i).status = ACTIVE
                                /\ Old(i).expires_at < last.now_read})

\* C37 witness: a get_config of a client whose short_uuid an earlier
\* rotate_config has replaced has made its call and succeeded
C37_Witness ==
    /\ Invoked("get_config") /\ Succeeded /\ Len(last.calls) = 1
    /\ \E k \in DOMAIN operations :
          /\ operations[k].client_id = last.client_id
          /\ operations[k].action = "rotate_config"
          /\ operations[k].result = SUCCESS

\* the success rows of the audit log `ops` for client i whose action is
\* block, unblock or auto_deactivate, oldest first
StatusRows(ops, i) ==
    SelectSeq(ops, LAMBDA o : /\ o.client_id = i
                              /\ o.result = SUCCESS
                              /\ o.action \in {"block", "unblock", "auto_deactivate"})

\* C38: with the requests served one after another, in every committed
\* state a client is blocked exactly when the newest success row of its
\* audit trail among the actions block, unblock and auto_deactivate is a
\* block or an auto_deactivate row, and active when that row is an unblock
\* row or there is no such row.
C38_StatusFromAudit ==
    \A i \in DOMAIN clients :
        LET rows == StatusRows(operations, i)
        IN IF rows = <<>> THEN clients[i].status = ACTIVE
           ELSE IF rows[Len(rows)].action = "unblock"
                THEN clients[i].status = ACTIVE
                ELSE clients[i].status = BLOCKED

\* C38 witness: an unblock_client has succeeded on a client that an earlier
\* request had blocked; its trail holds the block row and then the unblock row
C38_Witness ==
    /\ Invoked("unblock") /\ Succeeded
    /\ Len(StatusRows(operations, last.client_id)) = 2
    /\ StatusRows(operations, last.client_id)[1].action \in {"block", "auto_deactivate"}
    /\ clients[last.client_id].status = ACTIVE

\* C39: in every step, an extend_subscription request leaves the status of
\* every client as it was, however far it moves expires_at; a blocked client
\* becomes active only by a successful unblock_client of that client; and
\* after a successful unblock_client of a client whose expires_at is before
\* the clock the client is active and is selected by get_expired_active,
\* the query of the next sweep.
C39_NoImplicitReactivation ==
    [][ /\ (last.op = "idle" /\ last'.op = "extend") =>
              \A i \in DOMAIN clients :
                  i \in DOMAIN clients' /\ clients'[i].status = clients[i].status
        /\ \A i \in DOMAIN clients \cap DOMAIN clients' :
              (clients[i].status = BLOCKED /\ clients'[i].status # BLOCKED) =>
                  /\ last.op = "idle" /\ last'.op = "unblock"
                  /\ last'.client_id = i /\ last'.raised = NoException
        /\ (/\ last.op = "idle" /\ last'.op = "unblock"
            /\ last'.raised = NoException
            /\ clients[last'.client_id].expires_at < now') =>
              /\ clients'[last'.client_id].status = ACTIVE
              /\ last'.client_id \in
                    get_expired_active([clients |-> clients'], now')
      ]_vars

\* C39 witness: an extend_subscription has succeeded on a blocked client and
\* moved its expires_at past the clock; the client is still blocked
C39_Witness ==
    /\ Invoked("extend") /\ Succeeded
    /\ Old(last.client_id).status = BLOCKED
    /\ clients[last.client_id].expires_at > now
    /\ clients[last.client_id].status = BLOCKED

====
